---- MODULE Spec2Model ----
(***************************************************************************)
(* Model of the LLM gateway of Prompt-Assistant: the thought extractors,   *)
(* the thinking-extraction helper, the provider adapters, the provider     *)
(* factory, the validator and the LLMService facade, in the revision whose *)
(* adapters extend BaseModelProvider and stream through OpenAIHandler.     *)
(*                                                                         *)
(* A text is a sequence of characters.  A character is a TLA+ string: an   *)
(* ASCII character stands for itself, a CJK character is written by its    *)
(* pinyin in brackets ("[si]" is U+601D), the full-width colon is "[:]",   *)
(* the full-width comma "[,]" and the backquote "[bt]".                     *)
(* Indices into texts are 0-based, as in the source.                       *)
(***************************************************************************)
EXTENDS Integers, Sequences, FiniteSets, TLC

VARIABLES
  \* one call of the gateway
  op,            \* the operation called
  messages,      \* the message list passed
  providerKey,   \* the provider key passed
  customConfig,  \* the partial configuration passed to fetchModelList
  handlers,      \* how the caller's stream callbacks behave
  models,        \* the configuration store (ModelManager.models)
  pc,            \* "start", where the adapter waits for the vendor, or "done"
  modelConfig,   \* the configuration the gateway resolved
  adapter,       \* the class of the adapter the factory built
  requests,      \* the vendor requests issued so far
  replies,       \* the vendor's replies so far (a stream's chunks are in wire)
  outcome,       \* "pending" | "resolved" | "rejected"
  value,         \* what the call resolved to
  error,         \* the class of the error the call rejected with
  wire,          \* the chunks the vendor has streamed
  tokens,        \* the texts passed to onToken, in order of invocation
  pending,       \* the indices of tokens whose onToken has not completed
  terminals,     \* the invocations of onComplete and onError, in order
  streamState,   \* toolState and reasonerState of the OpenAI adapter
  \* one run of the extractors
  text,          \* the input text
  result,        \* what ThoughtExtractor.extract returned
  dsResult,      \* what DeepSeekThoughtExtractor.extract returned
  again,         \* what extract returned on the re-assembled split
  xpc,           \* "input" | "extracted" | "reassembled"
  \* the provider factory
  registry,      \* ModelProviderFactory.providers: lower-case name -> constructor
  registered,    \* the registerProvider calls that returned, in order
  wanted,        \* the configuration passed to createProvider
  instance,      \* what createProvider returned or threw
  \* a second call of the gateway, in flight at the same time
  parked         \* the state of the call that is not running now

inputVars == <<op, messages, providerKey, customConfig, handlers, models>>

callVars == <<pc, modelConfig, adapter, requests, replies, outcome, value, error>>

streamVars == <<wire, tokens, pending, terminals, streamState>>

gwVars == <<inputVars, callVars, streamVars>>

exVars == <<text, result, dsResult, again, xpc>>

facVars == <<registry, registered, wanted, instance>>

vars == <<gwVars, exVars, facVars, parked>>

----------------------------------------------------------------------------
(* Bounds of the model *)

MaxAtoms == 4

MaxChunks == 3

----------------------------------------------------------------------------
(* JavaScript values and string primitives *)

\* null / undefined.  No text contains the pseudo-character "[null]".
Null == <<"[null]">>

Whitespace == {" ", "\n", "\t", "\r"}

Min(S) == CHOOSE x \in S : \A y \in S : x <= y
Max(S) == CHOOSE x \in S : \A y \in S : x >= y

clamp(i, n) == IF i < 0 THEN 0 ELSE IF i > n THEN n ELSE i

\* marker occurs in text at 0-based index i
matchesAt(t, marker, i) ==
  /\ i >= 0
  /\ i + Len(marker) <= Len(t)
  /\ \A k \in 1..Len(marker) : t[i + k] = marker[k]

\* String.prototype.indexOf(marker, fromIndex): -1 when there is no occurrence
indexOf(t, marker, fromIndex) ==
  LET hits == { i \in clamp(fromIndex, Len(t)) .. (Len(t) - Len(marker)) :
                  /\ marker = <<>> \/ t[i + 1] = marker[1]
                  /\ matchesAt(t, marker, i) }
  IN  IF hits = {} THEN -1 ELSE Min(hits)

\* String.prototype.includes(marker)
includes(t, marker) == indexOf(t, marker, 0) # -1

\* String.prototype.substring(start, end): both clamped, swapped when start > end
substring(t, start, end) ==
  LET a == clamp(start, Len(t))
      b == clamp(end, Len(t))
  IN  IF a <= b THEN SubSeq(t, a + 1, b) ELSE SubSeq(t, b + 1, a)

\* String.prototype.substring(start)
substringFrom(t, start) == substring(t, start, Len(t))

\* String.prototype.trim()
trim(t) ==
  LET keep == { i \in 1..Len(t) : t[i] \notin Whitespace }
  IN  IF keep = {} THEN <<>> ELSE SubSeq(t, Min(keep), Max(keep))

\* String.prototype.startsWith(prefix)
startsWith(t, prefix) == matchesAt(t, prefix, 0)

\* truthiness of a string-or-null value
truthy(v) == v # Null /\ v # <<>>

\* a || b
orElse(a, b) == IF truthy(a) THEN a ELSE b

\* concatenation of a sequence of texts (Array.prototype.join(''))
RECURSIVE joinAll(_)
joinAll(ts) == IF ts = <<>> THEN <<>> ELSE Head(ts) \o joinAll(Tail(ts))

----------------------------------------------------------------------------
(* The marker vocabularies *)

mThinkOpen     == <<"<", "t", "h", "i", "n", "k", ">">>
mFenceThinking == <<"[bt]", "[bt]", "[bt]", "t", "h", "i", "n", "k", "i", "n", "g">>
mFenceThought  == <<"[bt]", "[bt]", "[bt]", "t", "h", "o", "u", "g", "h", "t">>
mFenceReason   == <<"[bt]", "[bt]", "[bt]", "r", "e", "a", "s", "o", "n", "i", "n", "g">>
mThinkingColon == <<"T", "h", "i", "n", "k", "i", "n", "g", ":">>
mSiKaoGuoCheng == <<"[si]", "[kao]", "[guo]", "[cheng]", ":">>

mThinkClose    == <<"<", "/", "t", "h", "i", "n", "k", ">">>
mFence         == <<"[bt]", "[bt]", "[bt]">>
mBlankLine     == <<"\n", "\n">>

mZuiZhongDaAn  == <<"[zui]", "[zhong]", "[da]", "[an]", ":">>
mZuiZhongHuiDa == <<"[zui]", "[zhong]", "[hui]", "[da]", ":">>
mAnswerColon   == <<"A", "n", "s", "w", "e", "r", ":">>
mHuiDa         == <<"[hui]", "[da]", ":">>

thinkStartMarkers ==
  << mThinkOpen, mFenceThinking, mFenceThought, mFenceReason,
     mThinkingColon, mSiKaoGuoCheng >>

thinkEndMarkers == << mThinkClose, mFence, mBlankLine >>

answerMarkers == << mZuiZhongDaAn, mZuiZhongHuiDa, mAnswerColon, mHuiDa >>

\* the look-ahead window of findAnswerStartIndex
AnswerWindow == 100

----------------------------------------------------------------------------
(* ThoughtExtractor (base) *)

\* the first marker of the list among those whose index is in present
firstOf(markers, present) ==
  IF present = {} THEN Null ELSE markers[Min(present)]

findFirstMarker(t, markers) ==
  firstOf(markers, { k \in 1..Len(markers) : includes(t, markers[k]) })

\* A variant of findFirstMarkerAfter that returns the marker that occurs
\* earliest from startIndex on, the first of the list among equals.
findEarliestMarkerAfter(t, markers, startIndex) ==
  firstOf(markers,
          { k \in 1..Len(markers) :
              /\ indexOf(t, markers[k], startIndex) # -1
              /\ \A j \in 1..Len(markers) :
                    \/ indexOf(t, markers[j], startIndex) = -1
                    \/ indexOf(t, markers[k], startIndex)
                         <= indexOf(t, markers[j], startIndex) })

findFirstMarkerAfter(t, markers, startIndex) ==
  firstOf(markers, { k \in 1..Len(markers) : indexOf(t, markers[k], startIndex) # -1 })

\* detectMarkers, once the start marker is known
detectEndMarker(t, startMarker) ==
  [startMarker |-> startMarker,
   endMarker |->
     IF startMarker # Null
       THEN findFirstMarkerAfter(t, thinkEndMarkers,
                                 indexOf(t, startMarker, 0) + Len(startMarker))
       ELSE findFirstMarker(t, thinkEndMarkers)]

detectMarkers(t) == detectEndMarker(t, findFirstMarker(t, thinkStartMarkers))

\* the index after the first answer marker of the list whose first occurrence
\* from defaultStartIndex on lies within the window, else defaultStartIndex
answerStartAfter(t, markers, defaultStartIndex, hit) ==
  IF hit = {} THEN defaultStartIndex
  ELSE indexOf(t, markers[Min(hit)], defaultStartIndex) + Len(markers[Min(hit)])

inWindow(markerIndex, defaultStartIndex) ==
  markerIndex # -1 /\ markerIndex < defaultStartIndex + AnswerWindow

findAnswerStartIndex(t, defaultStartIndex) ==
  answerStartAfter(t, answerMarkers, defaultStartIndex,
    { k \in 1..Len(answerMarkers) :
        inWindow(indexOf(t, answerMarkers[k], defaultStartIndex), defaultStartIndex) })

\* A variant of extractBetween that leaves the thinking segment untrimmed.
extractBetweenUntrimmed(t, endMarker, startIndex, endMarkIndex) ==
  IF endMarkIndex = -1
    THEN [thinking |-> substringFrom(t, startIndex), answer |-> Null]
    ELSE [thinking |-> substring(t, startIndex, endMarkIndex),
          answer   |-> orElse(trim(substringFrom(t,
                         findAnswerStartIndex(t, endMarkIndex + Len(endMarker)))), Null)]

\* extractThinkingAndAnswer, once the end marker has been searched for
extractBetween(t, endMarker, startIndex, endMarkIndex) ==
  IF endMarkIndex = -1
    THEN [thinking |-> trim(substringFrom(t, startIndex)), answer |-> Null]
    ELSE [thinking |-> trim(substring(t, startIndex, endMarkIndex)),
          answer   |-> orElse(trim(substringFrom(t,
                         findAnswerStartIndex(t, endMarkIndex + Len(endMarker)))), Null)]

\* extractThinkingAndAnswer, once the start index is known
extractFrom(t, endMarker, startIndex) ==
  extractBetween(t, endMarker, startIndex, indexOf(t, endMarker, startIndex))

\* extractThinkingAndAnswer, once the markers are detected
extractWithMarkers(t, m) ==
  IF m.startMarker = Null \/ m.endMarker = Null
    THEN [thinking |-> Null, answer |-> t]
    ELSE extractFrom(t, m.endMarker, indexOf(t, m.startMarker, 0) + Len(m.startMarker))

extractThinkingAndAnswer(t) == extractWithMarkers(t, detectMarkers(t))

\* A variant of extractProcessed that puts no start marker in front of the
\* text.
extractUnprocessed(t, processedText) == extractThinkingAndAnswer(t)

\* extract, when only an end marker was found: the first start marker is
\* put in front of the text
extractProcessed(t, processedText) ==
  IF detectMarkers(processedText).startMarker = Null
    THEN [thinking |-> Null, answer |-> t]
    ELSE extractThinkingAndAnswer(processedText)

\* A variant of extractDetected that passes marker-free text through trimmed.
extractDetectedTrimmed(t, m) ==
  IF m.startMarker = Null /\ m.endMarker = Null
    THEN [thinking |-> Null, answer |-> trim(t)]
  ELSE IF m.endMarker # Null /\ m.startMarker = Null
    THEN extractProcessed(t, thinkStartMarkers[1] \o t)
  ELSE extractThinkingAndAnswer(t)

\* extract, once the markers are detected
extractDetected(t, m) ==
  IF m.startMarker = Null /\ m.endMarker = Null
    THEN [thinking |-> Null, answer |-> t]
  ELSE IF m.endMarker # Null /\ m.startMarker = Null
    THEN extractProcessed(t, thinkStartMarkers[1] \o t)
  ELSE extractThinkingAndAnswer(t)

\* ThoughtExtractor.extract.  No string primitive it uses raises, so the
\* catch block (which returns {thinking: null, answer: text}) is never entered.
extract(t) ==
  IF ~truthy(t) \/ trim(t) = <<>>
    THEN [thinking |-> Null, answer |-> Null]
    ELSE extractDetected(t, detectMarkers(t))

hasMarker(m) == m.startMarker # Null \/ m.endMarker # Null

hasThinkingMarkers(t) == hasMarker(detectMarkers(t))

----------------------------------------------------------------------------
(* DeepSeekThoughtExtractor (vendor-specialized) *)

dThinkingOpen  == <<"<", "t", "h", "i", "n", "k", "i", "n", "g", ">">>
dSiKao         == <<"[si]", "[kao]", "[:]">>
dLetMeThink    == <<"L", "e", "t", " ", "m", "e", " ", "t", "h", "i", "n", "k", ":">>
dHereIs        == <<"H", "e", "r", "e", " ", "i", "s", " ", "m", "y", " ",
                    "t", "h", "o", "u", "g", "h", "t", " ",
                    "p", "r", "o", "c", "e", "s", "s", ":">>

dThinkingClose == <<"<", "/", "t", "h", "i", "n", "k", "i", "n", "g", ">">>
dJieLunEnd     == <<"\n", "\n", "[jie]", "[lun]", "[:]">>
dYinCiEnd      == <<"\n", "\n", "[yin]", "[ci]", "[,]">>
dInConclusion  == <<"\n", "\n", "I", "n", " ", "c", "o", "n", "c", "l", "u", "s", "i", "o", "n", ",">>

dJieLun        == <<"[jie]", "[lun]", "[:]">>
dZuiZhongJieLun == <<"[zui]", "[zhong]", "[jie]", "[lun]", "[:]">>
dConclusion    == <<"C", "o", "n", "c", "l", "u", "s", "i", "o", "n", ":">>

deepseekStartMarkers  == << dThinkingOpen, dSiKao, dLetMeThink, dHereIs >>
deepseekEndMarkers    == << dThinkingClose, dJieLunEnd, dYinCiEnd, dInConclusion >>
deepseekAnswerMarkers == << dJieLun, dZuiZhongJieLun, dConclusion >>

findFirstDeepSeekMarker(t, markers) ==
  firstOf(markers, { k \in 1..Len(markers) : includes(t, markers[k]) })

findDeepSeekAnswerStartIndex(t, defaultStartIndex) ==
  answerStartAfter(t, deepseekAnswerMarkers, defaultStartIndex,
    { k \in 1..Len(deepseekAnswerMarkers) :
        inWindow(indexOf(t, deepseekAnswerMarkers[k], defaultStartIndex),
                 defaultStartIndex) })

\* among the markers found (at[k] # -1), the one found earliest, the first
\* of the list among equals; Null when none is found
earliestMarker(markers, at) ==
  firstOf(markers,
          { k \in 1..Len(markers) :
              /\ at[k] # -1
              /\ \A j \in 1..Len(markers) :
                    at[j] = -1 \/ at[k] < at[j] \/ (at[k] = at[j] /\ k <= j) })

\* the loop of DeepSeekThoughtExtractor.extract over deepseekEndMarkers
deepseekEndMarker(t, startIndex) ==
  earliestMarker(deepseekEndMarkers,
                 [k \in 1..Len(deepseekEndMarkers) |->
                    indexOf(t, deepseekEndMarkers[k], startIndex)])

\* DeepSeekThoughtExtractor.extract, once the end marker is located
deepseekSplit(t, startIndex, endMarker, endIndex) ==
  [thinking |-> trim(substring(t, startIndex, endIndex)),
   answer   |-> orElse(trim(substringFrom(t,
                  findDeepSeekAnswerStartIndex(t, endIndex + Len(endMarker)))), Null)]

\* DeepSeekThoughtExtractor.extract, once the end marker is chosen
deepseekBetween(t, startIndex, endMarker) ==
  IF endMarker = Null
    THEN [thinking |-> trim(substring(t, startIndex, Len(t))), answer |-> Null]
    ELSE deepseekSplit(t, startIndex, endMarker, indexOf(t, endMarker, startIndex))

\* DeepSeekThoughtExtractor.extract, once the start marker is searched for
deepseekFromStart(t, baseResult, startMarker) ==
  IF startMarker = Null THEN baseResult
  ELSE deepseekBetween(t, indexOf(t, startMarker, 0) + Len(startMarker),
                       deepseekEndMarker(t, indexOf(t, startMarker, 0) + Len(startMarker)))

\* A variant of deepseekAfterBase that runs the pass over the DeepSeek
\* markers whatever the base extractor recovered.
deepseekAlways(t, baseResult) ==
  deepseekFromStart(t, baseResult, findFirstDeepSeekMarker(t, deepseekStartMarkers))

\* DeepSeekThoughtExtractor.extract, once the base extractor has run
deepseekAfterBase(t, baseResult) ==
  IF truthy(baseResult.thinking) THEN baseResult
  ELSE deepseekFromStart(t, baseResult, findFirstDeepSeekMarker(t, deepseekStartMarkers))

\* DeepSeekThoughtExtractor.extract
deepseekExtract(t) ==
  IF ~truthy(t) \/ trim(t) = <<>>
    THEN [thinking |-> Null, answer |-> Null]
    ELSE deepseekAfterBase(t, extract(t))

----------------------------------------------------------------------------
(* Results of operations that may throw, and the error classes *)

Ok(v) == [ok |-> TRUE, value |-> v]

Throw(kind) == [ok |-> FALSE, error |-> kind]

\* the subclasses of ServiceError; "VendorError" (what a vendor SDK throws),
\* "TypeError", "SyntaxError", "Error" and "HandlerError" (what a callback of
\* the caller throws) are not ServiceErrors
ServiceErrors ==
  { "ValidationError", "ConfigurationError", "OperationError", "StorageError",
    "DependencyError", "APIError", "RequestConfigError", "ModelConfigError" }

createValidationError == "ValidationError"

createConfigError == "RequestConfigError"

createOperationError == "OperationError"

\* ServiceBase.safeExecute without a fallback: a ServiceError passes through,
\* anything else is wrapped into an OperationError
safeExecute(r) ==
  IF r.ok THEN r
  ELSE IF r.error \in ServiceErrors THEN r
  ELSE Throw(createOperationError)

----------------------------------------------------------------------------
(* Messages *)

\* a content that is not a string
NotText == <<"[not text]">>

tQuestion == <<"q">>

Message(r, c) == [role |-> r, content |-> c]

\* the message lists a caller passes: well-formed ones, the empty list, and
\* lists with an entry of an unknown role or of a non-text content
MessageLists ==
  { <<>>,
    << Message("user", tQuestion) >>,
    << Message("assistant", tQuestion) >>,
    << Message("system", tQuestion), Message("user", tQuestion) >>,
    << Message("tool", tQuestion) >>,
    << Message("user", NotText) >>,
    << Message("user", tQuestion), Message("", tQuestion) >> }

\* an argument that is not an array, and an entry that is not an object
NotArray == << [notArray |-> TRUE] >>
NoEntry  == [absent |-> TRUE]

\* Validator.validateMessages as packages/core/src/services/llm/validator.ts
\* has it: every refusal is a RequestConfigError, an entry needs a truthy
\* content, and reading the role of an entry that is no object is a
\* TypeError of the runtime
coreValidateMessages(msgs) ==
  IF msgs = NotArray THEN Throw("RequestConfigError")
  ELSE IF Len(msgs) = 0 THEN Throw("RequestConfigError")
  ELSE IF \E i \in 1..Len(msgs) :
            /\ msgs[i] = NoEntry
            /\ \A j \in 1..(i - 1) :
                  /\ msgs[j] # NoEntry
                  /\ msgs[j].role \in {"system", "user", "assistant"}
                  /\ msgs[j].content \notin {NotText, <<>>}
         THEN Throw("TypeError")
  ELSE IF \E i \in 1..Len(msgs) :
            \/ msgs[i] = NoEntry
            \/ msgs[i].role = ""
            \/ msgs[i].content = <<>>
            \/ msgs[i].role \notin {"system", "user", "assistant"}
            \/ msgs[i].content = NotText
         THEN Throw("RequestConfigError")
  ELSE Ok(msgs)

\* Validator.validateMessages
validateMessages(msgs) ==
  IF msgs = NotArray \/ Len(msgs) = 0 THEN Throw(createValidationError)
  ELSE IF \E i \in 1..Len(msgs) :
            \/ msgs[i] = NoEntry
            \/ msgs[i].role = ""
            \/ msgs[i].role \notin {"system", "user", "assistant"}
            \/ msgs[i].content = NotText
         THEN Throw(createValidationError)
  ELSE Ok(msgs)

----------------------------------------------------------------------------
(* Model configurations and the configuration store *)

UpperCase == <<"A", "C", "D", "G", "O", "R", "S">>
LowerCase == <<"a", "c", "d", "g", "o", "r", "s">>

\* String.prototype.toLowerCase()
toLowerCase(t) ==
  [i \in 1..Len(t) |->
     IF \E k \in 1..Len(UpperCase) : UpperCase[k] = t[i]
       THEN LowerCase[CHOOSE k \in 1..Len(UpperCase) : UpperCase[k] = t[i]]
       ELSE t[i]]

pOpenAI    == <<"o", "p", "e", "n", "a", "i">>
pDeepSeek  == <<"D", "e", "e", "p", "S", "e", "e", "k">>
pGemini    == <<"g", "e", "m", "i", "n", "i">>
pAnthropic == <<"a", "n", "t", "h", "r", "o", "p", "i", "c">>
pOllama    == <<"o", "l", "l", "a", "m", "a">>
pCustom    == <<"c", "u", "s", "t", "o", "m">>

nDeepseek  == <<"d", "e", "e", "p", "s", "e", "e", "k">>
nReasoner  == <<"d", "e", "e", "p", "s", "e", "e", "k", "-", "r", "e", "a", "s", "o", "n", "e", "r">>
nChat      == <<"d", "e", "e", "p", "s", "e", "e", "k", "-", "c", "h", "a", "t">>
nCoder     == <<"d", "e", "e", "p", "s", "e", "e", "k", "-", "c", "o", "d", "e", "r">>
nGpt       == <<"g", "p", "t">>
nGeminiPro == <<"g", "e", "m", "i", "n", "i", "-", "p", "r", "o">>
nClaude    == <<"c", "l", "a", "u", "d", "e">>

\* no configuration (undefined)
NoConfig == [absent |-> TRUE]

\* a text field of a (possibly partial) configuration; undefined is Null
field(c, f) == IF f \in DOMAIN c THEN c[f] ELSE Null

Config(p, key, url, model, on) ==
  [provider |-> p, apiKey |-> key, baseURL |-> url,
   defaultModel |-> model, models |-> <<model>>, enabled |-> on]

\* a configuration as ModelManager.init takes it from local storage, where
\* nothing validates it: its default model is not in its list of models
Stray(p, key, url, model, listed) ==
  [provider |-> p, apiKey |-> key, baseURL |-> url,
   defaultModel |-> model, models |-> <<listed>>, enabled |-> TRUE]

\* the configuration store the gateway reads (ModelManager.models)
Store ==
  [k \in { "openai", "reasoner", "coder", "gemini", "anthropic", "custom",
           "nokey", "nourl", "nomodel", "novendor", "disabled", "stray" } |->
     CASE k = "openai"    -> Config(pOpenAI, <<"k">>, <<"u">>, nGpt, TRUE)
       [] k = "reasoner"  -> Config(pDeepSeek, <<"k">>, <<"u">>, nReasoner, TRUE)
       [] k = "coder"     -> Config(pDeepSeek, <<"k">>, <<"u">>, nCoder, TRUE)
       [] k = "gemini"    -> Config(pGemini, <<"k">>, <<"u">>, nGeminiPro, TRUE)
       [] k = "anthropic" -> Config(pAnthropic, <<"k">>, <<"u">>, nClaude, TRUE)
       [] k = "custom"    -> Config(pCustom, <<"k">>, <<"u">>, nGpt, TRUE)
       [] k = "nokey"     -> Config(pOpenAI, <<>>, <<"u">>, nGpt, TRUE)
       [] k = "nourl"     -> Config(pOpenAI, <<"k">>, <<>>, nGpt, TRUE)
       [] k = "nomodel"   -> Config(pOpenAI, <<"k">>, <<"u">>, <<>>, TRUE)
       [] k = "novendor"  -> Config(<<>>, <<"k">>, <<"u">>, nGpt, TRUE)
       [] k = "disabled"  -> Config(pOpenAI, <<"k">>, <<"u">>, nGpt, FALSE)
       [] k = "stray"     -> Stray(pOpenAI, <<"k">>, <<"u">>, nGpt, nChat)]

\* the provider keys a caller passes: the stored ones, an unknown one, none
ProviderKeys == DOMAIN Store \cup {"ghost", ""}

\* the partial configurations a caller passes to fetchModelList
CustomConfigs ==
  { NoConfig,
    [apiKey |-> <<"k2">>],
    [apiKey |-> <<>>],
    [provider |-> pGemini, apiKey |-> <<"k">>, baseURL |-> <<"u">>],
    [provider |-> pOpenAI, apiKey |-> <<"k">>] }

\* ModelManager.getModel
getModel(store, key) == IF key \in DOMAIN store THEN store[key] ELSE NoConfig

\* {...modelConfig, ...customConfig}
spread(stored, custom) ==
  [f \in DOMAIN stored \cup DOMAIN custom |->
     IF f \in DOMAIN custom THEN custom[f] ELSE stored[f]]

\* Validator.validateModelConfig as packages/core/src/services/llm/validator.ts
\* has it: no look at the base URL, and a configuration is refused unless
\* its enabled flag is set
coreValidateModelConfig(config) ==
  IF config = NoConfig THEN Throw("RequestConfigError")
  ELSE IF ~truthy(field(config, "provider")) THEN Throw("RequestConfigError")
  ELSE IF ~truthy(field(config, "apiKey")) THEN Throw("RequestConfigError")
  ELSE IF ~truthy(field(config, "defaultModel")) THEN Throw("RequestConfigError")
  ELSE IF ~("enabled" \in DOMAIN config /\ config.enabled = TRUE)
         THEN Throw("RequestConfigError")
  ELSE Ok(config)

\* Validator.validateModelConfig
validateModelConfig(config) ==
  IF config = NoConfig THEN Throw(createConfigError)
  ELSE IF ~truthy(field(config, "provider")) THEN Throw(createConfigError)
  ELSE IF ~truthy(field(config, "apiKey")) THEN Throw(createConfigError)
  ELSE IF ~truthy(field(config, "baseURL")) THEN Throw(createConfigError)
  ELSE IF ~truthy(field(config, "defaultModel")) THEN Throw(createConfigError)
  ELSE IF "enabled" \in DOMAIN config /\ config.enabled = FALSE
         THEN Throw(createConfigError)
  ELSE Ok(config)

\* the else branch of getValidatedConfig: provider, credential and base URL only
validateMinimal(config) ==
  IF ~truthy(field(config, "provider")) THEN Throw(createConfigError)
  ELSE IF ~truthy(field(config, "apiKey")) THEN Throw(createConfigError)
  ELSE IF ~truthy(field(config, "baseURL")) THEN Throw(createConfigError)
  ELSE Ok(config)

\* A variant of getValidatedConfig that validates nothing once a
\* configuration is resolved.
getValidatedConfigUnchecked(store, key, validateEnabled, custom) ==
  IF key = "" THEN Throw(createConfigError)
  ELSE LET stored == getModel(store, key)
       IN  IF custom # NoConfig /\ stored # NoConfig THEN Ok(spread(stored, custom))
           ELSE IF custom # NoConfig THEN Ok(custom)
           ELSE IF stored = NoConfig THEN Throw(createConfigError)
           ELSE Ok(stored)

\* LLMService.getValidatedConfig
getValidatedConfig(store, key, validateEnabled, custom) ==
  IF key = "" THEN Throw(createConfigError)
  ELSE LET stored == getModel(store, key)
           resolved == IF custom # NoConfig /\ stored # NoConfig
                         THEN spread(stored, custom)
                       ELSE IF custom # NoConfig THEN custom
                       ELSE stored
       IN  IF resolved = NoConfig THEN Throw(createConfigError)
           ELSE IF validateEnabled THEN validateModelConfig(resolved)
           ELSE validateMinimal(resolved)

----------------------------------------------------------------------------
(* ModelProviderFactory *)

\* ModelProviderFactory.providers: the registry, keyed by lower-case name
providers ==
  [n \in {pGemini, pAnthropic, pOpenAI, nDeepseek, pOllama} |->
     CASE n = pGemini    -> "GeminiProvider"
       [] n = pAnthropic -> "AnthropicProvider"
       [] OTHER          -> "OpenAIProvider"]

\* two names every JavaScript object inherits from Object.prototype
kConstructor == <<"c", "o", "n", "s", "t", "r", "u", "c", "t", "o", "r">>
kProto       == <<"_", "_", "p", "r", "o", "t", "o", "_", "_">>

\* this.providers[name]: an own entry, or an inherited member of the object
\* literal (Object itself, or Object.prototype, which is not a constructor),
\* or undefined ("")
lookup(reg, name) ==
  IF name \in DOMAIN reg THEN reg[name]
  ELSE IF name = kConstructor THEN "Object"
  ELSE IF name = kProto THEN "[Object.prototype]"
  ELSE ""

\* createProvider, once the constructor is looked up: new ProviderClass(...)
\* throws when ProviderClass is not a constructor
construct(ProviderClass) ==
  IF ProviderClass = "" THEN Throw("Error")
  ELSE IF ProviderClass = "[Object.prototype]" THEN Throw("Error")
  ELSE Ok(ProviderClass)

\* ModelProviderFactory.createProvider over a registry: the class of the
\* adapter it builds
createProviderIn(reg, config) ==
  IF config = NoConfig THEN Throw("Error")
  ELSE LET provider == IF field(config, "provider") = Null THEN <<>>
                       ELSE toLowerCase(config.provider)
       IN  IF provider = <<>> THEN Throw("Error")
           ELSE IF lookup(reg, provider) # "" THEN construct(lookup(reg, provider))
           ELSE construct(lookup(reg, pOpenAI))

\* ModelProviderFactory.createProvider over the initial registry
createProvider(config) == createProviderIn(providers, config)

\* ModelProviderFactory.registerProvider: the registry it leaves, or the
\* error it throws for an empty name or a missing constructor
registerProvider(reg, name, constructor) ==
  IF ~truthy(name) \/ trim(name) = <<>> THEN Throw("Error")
  ELSE IF constructor = "" THEN Throw("Error")
  ELSE Ok([n \in DOMAIN reg \cup {toLowerCase(name)} |->
             IF n = toLowerCase(name) THEN constructor ELSE reg[n]])

----------------------------------------------------------------------------
(* What the vendors answer *)

tOk     == <<"o", "k">>
tTagged == mThinkOpen \o <<"a">> \o mThinkClose \o <<"b">>

\* choices[0].message is undefined
NoMessage == [absent |-> TRUE]

\* JSON documents: {"thoughts":"t"}, a truncated one, and {}
jsonThoughts ==
  <<"{", "\"", "t", "h", "o", "u", "g", "h", "t", "s", "\"", ":", "\"", "t", "\"", "}">>
jsonTruncated == SubSeq(jsonThoughts, 1, 13)
jsonEmpty == <<"{", "}">>

\* a tool call of a response; a call may lack its function member
ToolCall(hasFn, nm, args) == [hasFunction |-> hasFn, name |-> nm, arguments |-> args]

ToolCallLists ==
  { <<>>,
    << ToolCall(TRUE, "thinking", jsonThoughts) >>,
    << ToolCall(TRUE, "thinking", jsonTruncated) >>,
    << ToolCall(FALSE, "", jsonEmpty) >> }

ChatMessages ==
  [content : {Null, tOk, tTagged},
   tool_calls : ToolCallLists,
   hasReasoning : BOOLEAN,
   reasoning_content : {<<"r">>}]

\* the chat-completion responses of an OpenAI-compatible vendor
Responses ==
  { [choices |-> <<>>], [choices |-> << [message |-> NoMessage] >>] }
    \cup { [choices |-> << [message |-> m] >>] : m \in ChatMessages }

\* what a vendor sends back for one request
Failure == [kind |-> "failure"]

ChatReplies == {Failure} \cup { [kind |-> "completion", response |-> r] : r \in Responses }

GeminiReplies == {Failure} \cup { [kind |-> "content", text |-> t] : t \in {<<>>, tOk, tTagged} }

ModelListReplies ==
  {Failure, [kind |-> "models", data |-> Null]}
    \cup { [kind |-> "models", data |-> d] : d \in {<<>>, <<"b", "a">>, <<"a", "c", "b">>} }

\* JSON.parse, for the documents a thinking tool call carries: an object
\* with one string member thoughts, or the empty object
JSONparse(t) ==
  LET pre == SubSeq(jsonThoughts, 1, 13)
      suf == SubSeq(jsonThoughts, 15, 16)
      body == SubSeq(t, Len(pre) + 1, Len(t) - Len(suf))
  IN  IF t = jsonEmpty THEN Ok([thoughts |-> Null])
      ELSE IF /\ Len(t) >= Len(pre) + Len(suf)
              /\ startsWith(t, pre)
              /\ matchesAt(t, suf, Len(t) - Len(suf))
              /\ \A i \in 1..Len(body) : body[i] \notin {"\"", "\\"}
             THEN Ok([thoughts |-> body])
      ELSE Throw("SyntaxError")

----------------------------------------------------------------------------
(* ThinkingExtractor (helper) *)

\* the headers of a rendered reasoning trace
hThinking == mSiKaoGuoCheng \o <<"\n">>
hAnswer   == <<"\n", "\n">> \o mZuiZhongHuiDa \o <<"\n">>

\* response.choices[0].message can be read and is an object
hasMessage(response) ==
  Len(response.choices) > 0 /\ response.choices[1].message # NoMessage

\* a ThinkingResponse from the result of extract: the answer, else the content
withThinking(content, extractResult) ==
  [thinking |-> extractResult.thinking,
   content  |-> orElse(extractResult.answer, content)]

\* ThinkingExtractor.fallbackExtractThinking
fallbackExtractThinking(content) == withThinking(content, extract(content))

\* a rendered reasoning trace
rendered(thinking, answer) == hThinking \o thinking \o hAnswer \o answer

\* processResponseWithThinking, the tool-call branch: the rendered trace, or
\* Null when the branch falls through
viaToolCall(message, toolCall, parsed) ==
  IF toolCall.hasFunction /\ toolCall.name = "thinking"
       /\ parsed.ok /\ truthy(parsed.value.thoughts)
    THEN rendered(parsed.value.thoughts, orElse(message.content, <<>>))
    ELSE Null

\* processResponseWithThinking, the reasoner branch
viaReasoner(content, extractResult) ==
  IF truthy(extractResult.thinking)
    THEN rendered(extractResult.thinking, orElse(extractResult.answer, content))
    ELSE content

\* processResponseWithThinking, after the tool-call branch
afterToolCall(response, isReasoner, trace) ==
  IF trace # Null THEN Ok(trace)
  ELSE IF ~hasMessage(response) THEN Throw("TypeError")
  ELSE IF isReasoner
    THEN Ok(viaReasoner(orElse(response.choices[1].message.content, <<>>),
                        extract(orElse(response.choices[1].message.content, <<>>))))
  ELSE Ok(orElse(response.choices[1].message.content, <<>>))

\* ThinkingExtractor.processResponseWithThinking
processResponseWithThinking(response, isDeepSeek, supportsTools, isReasoner) ==
  afterToolCall(response, isReasoner,
    IF isDeepSeek /\ supportsTools /\ hasMessage(response)
         /\ Len(response.choices[1].message.tool_calls) > 0
      THEN viaToolCall(response.choices[1].message,
                       response.choices[1].message.tool_calls[1],
                       JSONparse(orElse(response.choices[1].message.tool_calls[1].arguments,
                                        jsonEmpty)))
      ELSE Null)

\* ThinkingExtractor.getThinkingFromReasoner, from the vendor's response on
getThinkingFromReasoner(response) ==
  IF ~hasMessage(response) THEN Throw("TypeError")
  ELSE LET message == response.choices[1].message
       IN  IF message.hasReasoning
             THEN Ok([thinking |-> orElse(message.reasoning_content, Null),
                      content  |-> orElse(message.content, <<>>)])
             ELSE Ok(fallbackExtractThinking(orElse(message.content, <<>>)))

\* getThinkingFromToolCall, once the thinking tool is searched for: stops
\* holds the indices at which Array.prototype.find stops, at a call named
\* thinking or at a call without a function, whose name cannot be read
fromThinkingTool(responseMessage, stops) ==
  IF stops = {}
    THEN Ok([thinking |-> Null, content |-> orElse(responseMessage.content, <<>>)])
  ELSE IF ~responseMessage.tool_calls[Min(stops)].hasFunction
    THEN Throw("TypeError")
  ELSE IF JSONparse(responseMessage.tool_calls[Min(stops)].arguments).ok
    THEN Ok([thinking |-> JSONparse(responseMessage.tool_calls[Min(stops)].arguments).value.thoughts,
             content  |-> orElse(responseMessage.content, <<>>)])
  ELSE Ok([thinking |-> Null, content |-> orElse(responseMessage.content, <<>>)])

\* ThinkingExtractor.getThinkingFromToolCall, from the vendor's response on
getThinkingFromToolCall(response) ==
  IF ~hasMessage(response) THEN Throw("TypeError")
  ELSE fromThinkingTool(response.choices[1].message,
         { i \in 1..Len(response.choices[1].message.tool_calls) :
             \/ ~response.choices[1].message.tool_calls[i].hasFunction
             \/ response.choices[1].message.tool_calls[i].name = "thinking" })

----------------------------------------------------------------------------
(* The adapters: OpenAIProvider, GeminiProvider, AnthropicProvider *)

\* OpenAIProvider.isDeepSeekProvider
isDeepSeekProvider(config) ==
  field(config, "provider") # Null /\ toLowerCase(config.provider) = nDeepseek

\* OpenAIProvider.isDeepSeekReasoner
isDeepSeekReasoner(config) ==
  LET modelName == IF field(config, "defaultModel") = Null THEN <<>>
                   ELSE toLowerCase(config.defaultModel)
  IN  includes(modelName, nReasoner)

\* OpenAIProvider.supportsToolCalling
supportsToolCalling(config) ==
  IF ~isDeepSeekProvider(config) THEN TRUE
  ELSE LET modelName == IF field(config, "defaultModel") = Null THEN <<>>
                        ELSE toLowerCase(config.defaultModel)
       IN  ~(includes(modelName, nReasoner) \/ includes(modelName, nChat))

\* the texts of prepareDeepSeekReasonerMessages, shortened: the request to
\* analyse the question, and the instruction to show the reasoning in a
\* fenced thinking block before the final answer
tAnalyse        == <<"[qing]", "[fen]", "[xi]">>
tThinkingPrompt ==
  <<"\n", "\n">> \o mFenceThinking \o <<"\n">> \o mFence \o <<"\n", "\n">>
    \o mZuiZhongHuiDa

\* prepareDeepSeekReasonerMessages, once the messages are copied
withThinkingPrompt(formattedMessages, systems) ==
  IF systems = {}
    THEN << Message("system", tAnalyse \o tThinkingPrompt) >> \o formattedMessages
    ELSE [formattedMessages EXCEPT ![Min(systems)].content = @ \o tThinkingPrompt]

\* OpenAIProvider.prepareDeepSeekReasonerMessages.  No method of the adapter
\* calls it.
prepareDeepSeekReasonerMessages(msgs) ==
  withThinkingPrompt([i \in 1..Len(msgs) |-> Message(msgs[i].role, msgs[i].content)],
                     { i \in 1..Len(msgs) : msgs[i].role = "system" })

\* OpenAIProvider.prepareMessages
prepareMessages(msgs) ==
  [i \in 1..Len(msgs) |-> Message(msgs[i].role, msgs[i].content)]

\* OpenAIProvider.createRequestParams
createRequestParams(config, msgs, stream) ==
  [api |-> "chat.completions.create",
   messages |-> [i \in 1..Len(msgs) |-> Message(msgs[i].role, msgs[i].content)],
   tools |-> supportsToolCalling(config) /\ ~stream,
   stream |-> stream]

\* the request of getThinkingFromReasoner (no tools) and of
\* getThinkingFromToolCall (the thinking tool)
thinkingRequest(msgs, tools) ==
  [api |-> "chat.completions.create",
   messages |-> [i \in 1..Len(msgs) |-> Message(msgs[i].role, msgs[i].content)],
   tools |-> tools,
   stream |-> FALSE]

\* GeminiProvider: the content of the last non-system message when it is a
\* user message, else ''
lastUserMessage(msgs) ==
  LET conversationMessages == SelectSeq(msgs, LAMBDA m : m.role # "system")
  IN  IF Len(conversationMessages) > 0
           /\ conversationMessages[Len(conversationMessages)].role = "user"
        THEN conversationMessages[Len(conversationMessages)].content
        ELSE <<>>

geminiRequest(msgs, stream) ==
  [api |-> "chat.sendMessage", messages |-> msgs, tools |-> FALSE, stream |-> stream]

\* the instruction GeminiProvider.sendMessageWithThinking appends
tThinkPrompt == <<"\n", "\n">> \o mThinkOpen \o <<".", ".", ".">> \o mThinkClose

\* GeminiProvider.sendMessageWithThinking: messagesWithPrompt
messagesWithPrompt(msgs) ==
  IF Len(msgs) > 0 /\ msgs[Len(msgs)].role = "user"
    THEN [msgs EXCEPT ![Len(msgs)].content = @ \o tThinkPrompt]
    ELSE msgs

\* BaseModelProvider.testConnection: testMessages
testMessages == << Message("user", tOk) >>

\* the outcome of an adapter's sendMessage, from the vendor's reply on
sendMessageResult(class, config, reply) ==
  IF reply.kind = "failure" THEN Throw("VendorError")
  ELSE IF class = "GeminiProvider" THEN Ok(reply.text)
  ELSE processResponseWithThinking(reply.response, isDeepSeekProvider(config),
                                   supportsToolCalling(config),
                                   isDeepSeekReasoner(config))

\* the model identifiers in the order of String.prototype.localeCompare
idRank == [id \in {"a", "b", "c"} |-> CASE id = "a" -> 1 [] id = "b" -> 2 [] id = "c" -> 3]

\* A variant of fetchModelsResult that answers a failed or malformed listing
\* with a default catalogue.
fetchModelsResultDefault(reply) ==
  IF reply.kind = "failure" THEN << [id |-> "a", name |-> "a"] >>
  ELSE IF reply.data = Null THEN << [id |-> "a", name |-> "a"] >>
  ELSE SortSeq([i \in 1..Len(reply.data) |-> [id |-> reply.data[i], name |-> reply.data[i]]],
               LAMBDA x, y : idRank[x.id] < idRank[y.id])

\* OpenAIProvider.fetchModels, from the vendor's reply on
fetchModelsResult(reply) ==
  IF reply.kind = "failure" THEN <<>>
  ELSE IF reply.data = Null THEN <<>>
  ELSE SortSeq([i \in 1..Len(reply.data) |-> [id |-> reply.data[i], name |-> reply.data[i]]],
               LAMBDA x, y : idRank[x.id] < idRank[y.id])

\* the fixed catalogues of GeminiProvider.fetchModels and AnthropicProvider.fetchModels
fixedModels(class) ==
  IF class = "GeminiProvider"
    THEN << [id |-> "gemini-1.0-pro", name |-> "Gemini 1.0 Pro"],
            [id |-> "gemini-1.0-pro-vision", name |-> "Gemini 1.0 Pro Vision"],
            [id |-> "gemini-1.5-pro", name |-> "Gemini 1.5 Pro"],
            [id |-> "gemini-1.5-flash", name |-> "Gemini 1.5 Flash"] >>
    ELSE << [id |-> "claude-3-opus-20240229", name |-> "Claude 3 Opus"],
            [id |-> "claude-3-sonnet-20240229", name |-> "Claude 3 Sonnet"],
            [id |-> "claude-3-haiku-20240307", name |-> "Claude 3 Haiku"],
            [id |-> "claude-2.1", name |-> "Claude 2.1"] >>

\* LLMService.fetchModelList: models.map(model => ({value, label}))
toModelOptions(list) ==
  [i \in 1..Len(list) |-> [value |-> list[i].id, label |-> list[i].name]]

----------------------------------------------------------------------------
(* The non-streaming calls of an adapter, from one vendor request to the next *)

\* the adapter waits at pos for the vendor's reply to request
Await(pos, request) == [t |-> "await", pos |-> pos, request |-> request]

\* the adapter's method has returned (r.ok) or thrown
Return(r) == [t |-> "return", r |-> r]

\* the value of a method that returns nothing
Void == <<"[void]">>

\* what the adapter returns at pos once its sendMessage has returned content
afterSendOk(pos, content) ==
  CASE pos = "sendMessage" -> Ok(content)
    [] pos = "testConnection" -> Ok(Void)
    \* OpenAIProvider.sendMessageWithThinking, catch of the reasoner branch
    [] pos = "reasoner.catch" -> Ok(fallbackExtractThinking(content))
    \* BaseModelProvider.sendMessageWithThinking, try and catch
    [] pos = "base.try" -> Ok(fallbackExtractThinking(content))
    [] pos = "base.catch" -> Ok([thinking |-> Null, content |-> content])
    \* GeminiProvider.sendMessageWithThinking
    [] pos = "gemini.try" -> Ok(withThinking(content, extract(content)))

\* the adapter calls its own sendMessage at pos: GeminiProvider.sendMessage
\* returns '' at once when the last non-system message is not a user message
callSend(class, config, msgs, pos) ==
  LET sent == IF pos = "gemini.try" THEN messagesWithPrompt(msgs)
              ELSE IF pos = "testConnection" THEN testMessages
              ELSE msgs
  IN  IF class = "GeminiProvider"
        THEN IF ~truthy(lastUserMessage(sent))
               THEN Return(afterSendOk(pos, <<>>))
               ELSE Await(pos, geminiRequest(sent, FALSE))
        ELSE Await(pos, createRequestParams(config, sent, FALSE))

\* the adapter goes on at pos with r, the outcome of its sendMessage: the
\* catch blocks of the two sendMessageWithThinking call sendMessage again
afterSend(class, config, msgs, pos, r) ==
  IF r.ok THEN Return(afterSendOk(pos, r.value))
  ELSE IF pos = "base.try" THEN callSend(class, config, msgs, "base.catch")
  ELSE IF pos = "gemini.try" THEN callSend(class, config, msgs, "base.try")
  ELSE Return(r)

\* the positions at which an adapter waits for a chat completion
SendPositions ==
  {"sendMessage", "testConnection", "reasoner.catch", "base.try", "base.catch", "gemini.try"}

\* the adapter goes on at pos with the vendor's reply
onReply(class, config, msgs, pos, reply) ==
  CASE pos \in SendPositions ->
         afterSend(class, config, msgs, pos, sendMessageResult(class, config, reply))
    [] pos = "reasoner" ->
         LET r == IF reply.kind = "failure" THEN Throw("VendorError")
                  ELSE getThinkingFromReasoner(reply.response)
         IN  IF r.ok THEN Return(r)
             ELSE callSend(class, config, msgs, "reasoner.catch")
    [] pos = "toolcall" ->
         LET r == IF reply.kind = "failure" THEN Throw("VendorError")
                  ELSE getThinkingFromToolCall(reply.response)
         IN  IF r.ok THEN Return(r)
             ELSE callSend(class, config, msgs, "base.try")
    [] pos = "fetchModels" -> Return(Ok(toModelOptions(fetchModelsResult(reply))))

\* the adapter's sendMessageWithThinking up to its first vendor request
startSendMessageWithThinking(class, config, msgs) ==
  IF class = "OpenAIProvider"
    THEN IF isDeepSeekReasoner(config)
           THEN Await("reasoner", thinkingRequest(msgs, FALSE))
         ELSE IF isDeepSeekProvider(config) /\ supportsToolCalling(config)
           THEN Await("toolcall", thinkingRequest(msgs, TRUE))
         ELSE callSend(class, config, msgs, "base.try")
  ELSE IF class = "GeminiProvider" THEN callSend(class, config, msgs, "gemini.try")
  ELSE callSend(class, config, msgs, "base.try")

\* the adapter's fetchModels up to its first vendor request
startFetchModels(class) ==
  IF class = "OpenAIProvider"
    THEN Await("fetchModels",
               [api |-> "models.list", messages |-> <<>>, tools |-> FALSE, stream |-> FALSE])
    ELSE Return(Ok(toModelOptions(fixedModels(class))))

----------------------------------------------------------------------------
(* Streaming: the chunks of a vendor and OpenAIHandler *)

\* a chunk of a stream: choices[0].delta
Chunk(content, calls) == [content |-> content, tool_calls |-> calls]

Chunks ==
  { Chunk(<<"a">>, <<>>),
    Chunk(mFenceThinking, <<>>),
    Chunk(mFence, <<>>),
    Chunk(<<>>, <<>>),
    Chunk(Null, << [arguments |-> jsonThoughts] >>) }

\* toolState and reasonerState of OpenAIProvider.sendMessageStream
InitialStreamState ==
  [isThinking |-> FALSE, thoughts |-> <<>>,
   reasonerBuffer |-> <<>>, inThinkingBlock |-> FALSE,
   hasOutputThinking |-> FALSE, thoughtsContent |-> <<>>]

\* what a handler did with a chunk: whether it consumed it, the texts it
\* passed to onToken, in order, and the state it left
Handled(h, toks, st) == [handled |-> h, tokens |-> toks, state |-> st]

tThinkingNow == <<"[si]", "[kao]", "[zhong]", ":", " ">>
tAnswerNow   == <<"\n">> \o mZuiZhongHuiDa \o <<"\n">>

\* handleThinkingToolCall, once the arguments are appended and parsed
thinkingTokens(parsedThoughts) ==
  IF parsedThoughts.ok /\ truthy(parsedThoughts.value.thoughts)
    THEN << tThinkingNow \o parsedThoughts.value.thoughts \o <<"\n">> >>
    ELSE <<>>

\* OpenAIHandler.handleThinkingToolCall
handleThinkingToolCall(chunk, state, isDeepSeek, supportsTools) ==
  IF ~isDeepSeek \/ ~supportsTools THEN Handled(FALSE, <<>>, state)
  ELSE IF Len(chunk.tool_calls) > 0
    THEN IF truthy(chunk.tool_calls[1].arguments)
           THEN Handled(TRUE,
                        thinkingTokens(JSONparse(state.thoughts \o chunk.tool_calls[1].arguments)),
                        [state EXCEPT !.isThinking = TRUE,
                                      !.thoughts = @ \o chunk.tool_calls[1].arguments])
           ELSE Handled(TRUE, <<>>, [state EXCEPT !.isThinking = TRUE])
  ELSE Handled(FALSE, <<>>, state)

\* handleReasonerOutput, when the thinking block closes: rest is the buffer
\* after the closing fence
closeThinking(state, thoughtsContent, rest) ==
  Handled(TRUE,
          IF truthy(trim(rest)) THEN << hAnswer, rest >> ELSE << hAnswer >>,
          [state EXCEPT !.inThinkingBlock = FALSE,
                        !.thoughtsContent = thoughtsContent,
                        !.reasonerBuffer = IF truthy(trim(rest)) THEN <<>> ELSE rest])

\* A variant of reasonerOutput that emits the thinking header at every
\* opening fence.
reasonerOutputRepeating(content, state, buffer) ==
  IF ~state.inThinkingBlock /\ includes(buffer, mFenceThinking)
    THEN Handled(TRUE,
                 << hThinking >>,
                 [state EXCEPT !.inThinkingBlock = TRUE,
                               !.reasonerBuffer =
                                  substringFrom(buffer, indexOf(buffer, mFenceThinking, 0)
                                                          + Len(mFenceThinking)),
                               !.hasOutputThinking = TRUE])
  ELSE IF state.inThinkingBlock /\ includes(buffer, mFence)
    THEN closeThinking(state, substring(buffer, 0, indexOf(buffer, mFence, 0)),
                       substringFrom(buffer, indexOf(buffer, mFence, 0) + 3))
  ELSE IF state.inThinkingBlock
    THEN Handled(TRUE, << content >>, [state EXCEPT !.reasonerBuffer = buffer])
  ELSE IF ~state.hasOutputThinking
    THEN Handled(TRUE, <<>>, [state EXCEPT !.reasonerBuffer = buffer])
  ELSE Handled(TRUE, << content >>, [state EXCEPT !.reasonerBuffer = buffer])

\* handleReasonerOutput, once the content is appended to the buffer
reasonerOutput(content, state, buffer) ==
  IF ~state.inThinkingBlock /\ includes(buffer, mFenceThinking)
    THEN Handled(TRUE,
                 IF ~state.hasOutputThinking THEN << hThinking >> ELSE <<>>,
                 [state EXCEPT !.inThinkingBlock = TRUE,
                               !.reasonerBuffer =
                                  substringFrom(buffer, indexOf(buffer, mFenceThinking, 0)
                                                          + Len(mFenceThinking)),
                               !.hasOutputThinking = TRUE])
  ELSE IF state.inThinkingBlock /\ includes(buffer, mFence)
    THEN closeThinking(state, substring(buffer, 0, indexOf(buffer, mFence, 0)),
                       substringFrom(buffer, indexOf(buffer, mFence, 0) + 3))
  ELSE IF state.inThinkingBlock
    THEN Handled(TRUE, << content >>, [state EXCEPT !.reasonerBuffer = buffer])
  ELSE IF ~state.hasOutputThinking
    THEN Handled(TRUE, <<>>, [state EXCEPT !.reasonerBuffer = buffer])
  ELSE Handled(TRUE, << content >>, [state EXCEPT !.reasonerBuffer = buffer])

\* OpenAIHandler.handleReasonerOutput
handleReasonerOutput(chunk, state, isReasonerModel) ==
  IF ~isReasonerModel THEN Handled(FALSE, <<>>, state)
  ELSE IF ~truthy(orElse(chunk.content, <<>>)) THEN Handled(FALSE, <<>>, state)
  ELSE reasonerOutput(chunk.content, state, state.reasonerBuffer \o chunk.content)

\* OpenAIHandler.handleRegularContent
handleRegularContent(chunk, state) ==
  LET content == orElse(chunk.content, <<>>)
  IN  IF ~truthy(content) THEN Handled(TRUE, <<>>, state)
      ELSE IF state.isThinking /\ truthy(state.thoughts)
                /\ ~startsWith(trim(content), mSiKaoGuoCheng)
        THEN Handled(TRUE, << tAnswerNow, content >>, [state EXCEPT !.isThinking = FALSE])
      ELSE Handled(TRUE, << content >>, state)

\* the body of the for-await loop of OpenAIProvider.sendMessageStream
firstHandled(viaTool, viaReasonerModel, regular) ==
  IF viaTool.handled THEN viaTool
  ELSE IF viaReasonerModel.handled THEN viaReasonerModel
  ELSE regular

openaiChunk(chunk, state, config) ==
  firstHandled(handleThinkingToolCall(chunk, state, isDeepSeekProvider(config),
                                      supportsToolCalling(config)),
               handleReasonerOutput(chunk, state, isDeepSeekReasoner(config)),
               handleRegularContent(chunk, state))

\* the body of the for-await loop of GeminiProvider.sendMessageStream
geminiChunk(chunk, state) ==
  LET chunkText == orElse(chunk.content, <<>>)
  IN  Handled(TRUE, IF truthy(chunkText) THEN << chunkText >> ELSE <<>>, state)

\* what the adapter of the class does with a chunk
handleChunk(class, chunk, state, config) ==
  IF class = "GeminiProvider" THEN geminiChunk(chunk, state)
  ELSE openaiChunk(chunk, state, config)

----------------------------------------------------------------------------
(* One call of the gateway (LLMService) *)

Operations ==
  {"sendMessage", "sendMessageStream", "testConnection", "fetchModelList",
   "sendMessageWithThinking"}

\* how the caller's stream callbacks behave: onToken returns at once, onToken
\* returns a promise that settles later, onToken throws, onComplete throws
HandlerModes == {"sync", "async", "tokenThrows", "completeThrows"}

\* the number of outbound vendor requests made on behalf of the call
netCalls == Len(requests)

\* LLMService.executeProviderAction up to the call of the adapter:
\* getValidatedConfig, then createProvider
provide(validateEnabled, custom) ==
  LET c == getValidatedConfig(models, providerKey, validateEnabled, custom)
  IN  IF ~c.ok THEN c
      ELSE LET p == createProvider(c.value)
           IN  IF ~p.ok THEN p
               ELSE Ok([modelConfig |-> c.value, class |-> p.value])

\* the promise of the call settles with r
Settle(r) ==
  /\ pc' = "done"
  /\ outcome' = IF r.ok THEN "resolved" ELSE "rejected"
  /\ value' = IF r.ok THEN r.value ELSE Null
  /\ error' = IF r.ok THEN "" ELSE r.error

\* the call fails before an adapter exists
Fail(r) == Settle(r) /\ UNCHANGED <<modelConfig, adapter, requests>>

\* the adapter either issues its next request or returns through safeExecute
Proceed(f) ==
  IF f.t = "await"
    THEN /\ pc' = f.pos
         /\ requests' = Append(requests, f.request)
         /\ UNCHANGED <<outcome, value, error>>
    ELSE /\ Settle(safeExecute(f.r))
         /\ UNCHANGED requests

Enter(p, f) ==
  /\ modelConfig' = p.modelConfig
  /\ adapter' = p.class
  /\ Proceed(f)

\* A variant of callerList in which the adapter edits the caller's list in
\* place: the list it sends is the caller's list.
callerListEdited(own, sent) == sent

\* the caller's message list once an adapter has built the list it sends:
\* prepareMessages, prepareDeepSeekReasonerMessages and
\* GeminiProvider.sendMessageWithThinking each build a new list of new entries
callerList(own, sent) == own

\* the records of the store once getValidatedConfig has resolved a
\* configuration: a custom configuration is spread into a new object
recordsAfter(store, key, resolved) == store

\* what a step of the gateway leaves of the caller's arguments and of the
\* store, given the request it issued and the configuration it resolved
Untouched ==
  /\ messages' = callerList(messages,
                    IF requests' # requests THEN requests'[Len(requests')].messages
                    ELSE messages)
  /\ models' = recordsAfter(models, providerKey, modelConfig')
  /\ UNCHANGED <<op, providerKey, customConfig, handlers>>

\* LLMService.sendMessage, up to the first vendor request
SendMessage ==
  /\ op = "sendMessage" /\ pc = "start"
  /\ LET v == validateMessages(messages)
         p == provide(TRUE, NoConfig)
     IN  IF ~v.ok THEN Fail(v)
         ELSE IF ~p.ok THEN Fail(safeExecute(p))
         ELSE Enter(p.value, callSend(p.value.class, p.value.modelConfig,
                                      messages, "sendMessage"))
  /\ UNCHANGED <<replies, streamVars, exVars, facVars, parked>>
  /\ Untouched

\* LLMService.testConnection, up to the first vendor request
TestConnection ==
  /\ op = "testConnection" /\ pc = "start"
  /\ LET p == provide(TRUE, NoConfig)
     IN  IF ~p.ok THEN Fail(safeExecute(p))
         ELSE Enter(p.value, callSend(p.value.class, p.value.modelConfig,
                                      messages, "testConnection"))
  /\ UNCHANGED <<replies, streamVars, exVars, facVars, parked>>
  /\ Untouched

\* LLMService.fetchModelList, up to the first vendor request
FetchModelList ==
  /\ op = "fetchModelList" /\ pc = "start"
  /\ LET p == provide(FALSE, customConfig)
     IN  IF ~p.ok THEN Fail(safeExecute(p))
         ELSE Enter(p.value, startFetchModels(p.value.class))
  /\ UNCHANGED <<replies, streamVars, exVars, facVars, parked>>
  /\ Untouched

\* LLMService.sendMessageWithThinking, up to the first vendor request
SendMessageWithThinking ==
  /\ op = "sendMessageWithThinking" /\ pc = "start"
  /\ LET v == validateMessages(messages)
         p == provide(TRUE, NoConfig)
     IN  IF ~v.ok THEN Fail(v)
         ELSE IF ~p.ok THEN Fail(safeExecute(p))
         ELSE Enter(p.value, startSendMessageWithThinking(p.value.class,
                                                          p.value.modelConfig, messages))
  /\ UNCHANGED <<replies, streamVars, exVars, facVars, parked>>
  /\ Untouched

\* the vendor's reply reaches the waiting adapter, which runs on to its next
\* request or to its return
Reply(reply) ==
  /\ replies' = Append(replies, reply)
  /\ Proceed(onReply(adapter, modelConfig, messages, pc, reply))
  /\ UNCHANGED <<modelConfig, adapter, streamVars, exVars, facVars, parked>>
  /\ Untouched

\* an OpenAI-compatible vendor answers a chat completion request
CompletionArrives ==
  /\ pc \in SendPositions \cup {"reasoner", "toolcall"}
  /\ adapter # "GeminiProvider"
  /\ \E reply \in ChatReplies \ {Failure} : Reply(reply)

\* Gemini answers chat.sendMessage
ContentArrives ==
  /\ pc \in SendPositions
  /\ adapter = "GeminiProvider"
  /\ \E reply \in GeminiReplies \ {Failure} : Reply(reply)

\* an OpenAI-compatible vendor answers models.list
ModelListArrives ==
  /\ pc = "fetchModels"
  /\ \E reply \in ModelListReplies \ {Failure} : Reply(reply)

\* the vendor request in flight fails (network failure, non-2xx response)
RequestFails ==
  /\ pc \in SendPositions \cup {"reasoner", "toolcall", "fetchModels"}
  /\ Reply(Failure)

----------------------------------------------------------------------------
(* Streaming calls *)

\* the record of one invocation of onComplete or onError: its kind and the
\* number of onToken invocations that had not completed when it was made
Terminal(kind) == [kind |-> kind, unsettled |-> Cardinality(pending)]

\* the request of the adapter's sendMessageStream
streamRequest(class, config, msgs) ==
  IF class = "GeminiProvider" THEN geminiRequest(msgs, TRUE)
  ELSE createRequestParams(config, msgs, TRUE)

\* an error thrown inside the try block of the adapter's sendMessageStream:
\* the adapter's catch calls onError and rethrows, safeExecute wraps the
\* error, and the catch of LLMService.sendMessageStream calls onError again
AdapterThrows(e) ==
  /\ terminals' = terminals \o << Terminal("error"), Terminal("error") >>
  /\ Settle(safeExecute(Throw(e)))

\* LLMService.sendMessageStream, up to the vendor request
SendMessageStream ==
  /\ op = "sendMessageStream" /\ pc = "start"
  /\ LET v == validateMessages(messages)
         p == provide(TRUE, NoConfig)
     IN  IF ~v.ok
           THEN Fail(v) /\ UNCHANGED terminals
         ELSE IF ~p.ok
           THEN /\ terminals' = Append(terminals, Terminal("error"))
                /\ Fail(safeExecute(p))
         ELSE IF p.value.class = "GeminiProvider" /\ ~truthy(lastUserMessage(messages))
           THEN /\ modelConfig' = p.value.modelConfig
                /\ adapter' = p.value.class
                /\ UNCHANGED requests
                /\ IF handlers = "completeThrows"
                     THEN /\ terminals' = terminals \o
                               << Terminal("complete"), Terminal("error") >>
                          /\ Settle(safeExecute(Throw("HandlerError")))
                     ELSE /\ terminals' = Append(terminals, Terminal("complete"))
                          /\ Settle(Ok(Void))
         ELSE /\ modelConfig' = p.value.modelConfig
              /\ adapter' = p.value.class
              /\ requests' = Append(requests, streamRequest(p.value.class,
                                                            p.value.modelConfig, messages))
              /\ pc' = "connecting"
              /\ UNCHANGED <<outcome, value, error, terminals>>
  /\ UNCHANGED <<replies, wire, tokens, pending, streamState, exVars, facVars, parked>>
  /\ Untouched

\* the vendor accepts the stream request
StreamOpens ==
  /\ pc = "connecting"
  /\ pc' = "streaming"
  /\ UNCHANGED <<inputVars, modelConfig, adapter, requests, replies, outcome, value,
                 error, streamVars, exVars, facVars, parked>>

\* the adapter's loop body has handled a chunk as h says
Deliver(h) ==
  /\ streamState' = h.state
  /\ IF h.tokens = <<>>
       THEN UNCHANGED <<tokens, pending, terminals, pc, outcome, value, error>>
     ELSE IF handlers = "tokenThrows"
       THEN /\ tokens' = Append(tokens, h.tokens[1])
            /\ AdapterThrows("HandlerError")
            /\ UNCHANGED pending
     ELSE /\ tokens' = tokens \o h.tokens
          /\ pending' = IF handlers = "async"
                          THEN pending \cup ((Len(tokens) + 1)..(Len(tokens) + Len(h.tokens)))
                          ELSE pending
          /\ UNCHANGED <<terminals, pc, outcome, value, error>>

\* the vendor sends a chunk and the adapter's loop body handles it; the loop
\* of GeminiProvider awaits onToken, so it takes no chunk while a token is
\* unsettled
StreamChunk(chunk) ==
  /\ pc = "streaming"
  /\ Len(wire) < MaxChunks
  /\ adapter = "GeminiProvider" => pending = {}
  /\ wire' = Append(wire, chunk)
  /\ Deliver(handleChunk(adapter, chunk, streamState, modelConfig))
  /\ UNCHANGED <<inputVars, modelConfig, adapter, requests, replies, exVars, facVars, parked>>

\* the vendor ends the stream and the adapter calls onComplete
StreamEnds ==
  /\ pc = "streaming"
  /\ adapter = "GeminiProvider" => pending = {}
  /\ IF handlers = "completeThrows"
       THEN /\ terminals' = terminals \o
                 << Terminal("complete"), Terminal("error"), Terminal("error") >>
            /\ Settle(safeExecute(Throw("HandlerError")))
       ELSE /\ terminals' = Append(terminals, Terminal("complete"))
            /\ Settle(Ok(Void))
  /\ UNCHANGED <<inputVars, modelConfig, adapter, requests, replies, wire, tokens,
                 pending, streamState, exVars, facVars, parked>>

\* the vendor fails the stream, on connecting or between two chunks
StreamFails ==
  /\ pc \in {"connecting", "streaming"}
  /\ adapter = "GeminiProvider" => pending = {}
  /\ replies' = Append(replies, Failure)
  /\ AdapterThrows("VendorError")
  /\ UNCHANGED <<inputVars, modelConfig, adapter, requests, wire, tokens, pending,
                 streamState, exVars, facVars, parked>>

\* the promise an asynchronous onToken returned for the i-th token settles
TokenSettles(i) ==
  /\ i \in pending
  /\ pending' = pending \ {i}
  /\ UNCHANGED <<inputVars, callVars, wire, tokens, terminals, streamState, exVars, facVars, parked>>

----------------------------------------------------------------------------
(* The specifications *)

\* there is no second call
NoCall == [absent |-> TRUE]

\* createProvider has not been called
NotCreated == [ok |-> FALSE, error |-> "[not created]"]

NotRun == [thinking |-> <<"[not run]">>, answer |-> <<"[not run]">>]

Init ==
  /\ op \in Operations
  /\ messages \in IF op \in {"sendMessage", "sendMessageStream", "sendMessageWithThinking"}
                    THEN MessageLists ELSE { <<>> }
  /\ providerKey \in ProviderKeys
  /\ customConfig \in IF op = "fetchModelList" THEN CustomConfigs ELSE {NoConfig}
  /\ handlers \in IF op = "sendMessageStream" THEN HandlerModes ELSE {"sync"}
  /\ models = Store
  /\ pc = "start"
  /\ modelConfig = NoConfig
  /\ adapter = ""
  /\ requests = <<>>
  /\ replies = <<>>
  /\ outcome = "pending"
  /\ value = Null
  /\ error = ""
  /\ wire = <<>>
  /\ tokens = <<>>
  /\ pending = {}
  /\ terminals = <<>>
  /\ streamState = InitialStreamState
  /\ text = <<>>
  /\ result = NotRun
  /\ dsResult = NotRun
  /\ again = NotRun
  /\ xpc = "idle"
  /\ registry = providers
  /\ registered = <<>>
  /\ wanted = NoConfig
  /\ instance = NotCreated
  /\ parked = NoCall

Next ==
  \/ SendMessage
  \/ SendMessageStream
  \/ TestConnection
  \/ FetchModelList
  \/ SendMessageWithThinking
  \/ CompletionArrives
  \/ ContentArrives
  \/ ModelListArrives
  \/ RequestFails
  \/ StreamOpens
  \/ \E chunk \in Chunks : StreamChunk(chunk)
  \/ StreamEnds
  \/ StreamFails
  \/ \E i \in pending : TokenSettles(i)

Spec == Init /\ [][Next]_vars

(* Extractor runs: the texts are all sequences of at most MaxAtoms atoms *)

Atoms ==
  { mThinkOpen, mThinkClose, mFence, <<"\n">>, <<"a">>,
    mAnswerColon, dThinkingOpen, dThinkingClose }

AtomSeqs == UNION { [1..n -> Atoms] : n \in 0..MaxAtoms }

\* the text of the scenario of the specification, its thinking and its answer
tReason ==
  << "b", "e", "c", "a", "u", "s", "e", " ", "9", ".", "1", "1", " ", "<",
     " ", "9", ".", "9", " ", "n", "u", "m", "e", "r", "i", "c", "a", "l",
     "l", "y", " ", "w", "h", "e", "n", " ", "c", "o", "m", "p", "a", "r",
     "e", "d", " ", "a", "s", " ", "d", "e", "c", "i", "m", "a", "l", "s" >>

tLarger ==
  << "9", ".", "8", " ", "i", "s", " ", "l", "a", "r", "g", "e", "r", "." >>

tScenario == mThinkOpen \o tReason \o mThinkClose \o tLarger

TextInputs == { joinAll(s) : s \in AtomSeqs } \cup {tScenario}

InitExtract ==
  /\ text \in TextInputs
  /\ result = NotRun
  /\ dsResult = NotRun
  /\ again = NotRun
  /\ xpc = "input"
  /\ op = "none"
  /\ messages = <<>>
  /\ providerKey = ""
  /\ customConfig = NoConfig
  /\ handlers = "sync"
  /\ models = Store
  /\ pc = "idle"
  /\ modelConfig = NoConfig
  /\ adapter = ""
  /\ requests = <<>>
  /\ replies = <<>>
  /\ outcome = "pending"
  /\ value = Null
  /\ error = ""
  /\ wire = <<>>
  /\ tokens = <<>>
  /\ pending = {}
  /\ terminals = <<>>
  /\ streamState = InitialStreamState
  /\ registry = providers
  /\ registered = <<>>
  /\ wanted = NoConfig
  /\ instance = NotCreated
  /\ parked = NoCall

\* ThoughtExtractor.extract and DeepSeekThoughtExtractor.extract applied to text
Extract ==
  /\ xpc = "input"
  /\ result' = extract(text)
  /\ dsResult' = deepseekExtract(text)
  /\ xpc' = "extracted"
  /\ UNCHANGED <<text, again, gwVars, facVars, parked>>

\* the markers extract works with: those detected in the text, or, when only
\* a closing marker is detected, those detected once the first opening
\* marker is put in front
usedMarkers(t, m) ==
  IF m.endMarker # Null /\ m.startMarker = Null
    THEN detectMarkers(thinkStartMarkers[1] \o t)
    ELSE m

\* an absent segment contributes nothing to a text
shown(v) == IF v = Null THEN <<>> ELSE v

\* the split r put together again around the markers m
reassemble(r, m) == m.startMarker \o shown(r.thinking) \o m.endMarker \o shown(r.answer)

\* extract applied to the split of text, re-assembled with the opening and
\* the closing marker that extract used on text
Reassemble ==
  /\ xpc = "extracted"
  /\ truthy(text) /\ trim(text) # <<>>
  /\ LET m == usedMarkers(text, detectMarkers(text))
     IN  /\ m.startMarker # Null
         /\ m.endMarker # Null
         /\ again' = extract(reassemble(result, m))
  /\ xpc' = "reassembled"
  /\ UNCHANGED <<text, result, dsResult, gwVars, facVars, parked>>

NextExtract == Extract \/ Reassemble

SpecExtract == InitExtract /\ [][NextExtract]_vars

----------------------------------------------------------------------------
(* Properties of the thought extractors, checked under SpecExtract *)

\* Positions of t at which one of the markers starts.
occurrences(t, markers) ==
  { i \in 0..(Len(t) - 1) :
      \E k \in 1..Len(markers) :
         t[i + 1] = markers[k][1] /\ matchesAt(t, markers[k], i) }

containsAny(t, markers) == occurrences(t, markers) # {}

\* t contains an opening marker and no closing marker starts after the
\* earliest opening marker.
OpenWithoutClose(t) ==
  /\ containsAny(t, thinkStartMarkers)
  /\ \A j \in occurrences(t, thinkEndMarkers) :
        j < Min(occurrences(t, thinkStartMarkers))

NoMarkers(t) ==
  ~containsAny(t, thinkStartMarkers) /\ ~containsAny(t, thinkEndMarkers)

Blank(t) == \A i \in 1..Len(t) : t[i] \in Whitespace

\* C6: for every text with an opening marker and no closing marker after it,
\* extract returns a non-absent thinking and an absent answer.
C6_OpenWithoutCloseIsAllThinking ==
  (xpc = "extracted" /\ OpenWithoutClose(text))
    => (result.thinking # Null /\ result.answer = Null)

\* C7 as stated: for every text without any marker, empty and whitespace-only
\* text included, extract returns thinking absent and the input as answer.
C7_NoMarkersPassThroughAll ==
  (xpc = "extracted" /\ NoMarkers(text))
    => (result.thinking = Null /\ result.answer = text)

\* C7 amended: for every text without any marker, extract returns thinking
\* absent; the answer is the unchanged input when the text has a
\* non-whitespace character, and absent when the text is empty or
\* whitespace-only.
C7_NoMarkersPassThrough ==
  (xpc = "extracted" /\ NoMarkers(text))
    => /\ result.thinking = Null
       /\ result.answer = IF Blank(text) THEN Null ELSE text

C7_Witness ==
  /\ xpc = "extracted"
  /\ NoMarkers(text)
  /\ ~Blank(text)
  /\ trim(text) # text
  /\ result = [thinking |-> Null, answer |-> text]

----------------------------------------------------------------------------
(* Properties of the gateway, checked under Spec *)

streaming == op = "sendMessageStream"

settled == outcome # "pending"

\* the number of invocations of the terminal callback of the kind
invocations(kind) ==
  Cardinality({ i \in 1..Len(terminals) : terminals[i].kind = kind })

vendorFailed == \E i \in 1..Len(replies) : replies[i].kind = "failure"

\* C1: once a sendMessageStream call has settled, onComplete and onError
\* have been invoked exactly once in total, whatever way the call went.
C1_ExactlyOneTerminalCallback ==
  (streaming /\ settled) => Len(terminals) = 1

\* C2: when the vendor request of a sendMessageStream call fails, onError
\* is invoked exactly once and the call rejects.
C2_VendorFailureOneOnError ==
  (streaming /\ settled /\ vendorFailed)
    => (outcome = "rejected" /\ invocations("error") = 1)

\* C3: a terminal callback of a stream is invoked only when every onToken
\* invocation made before it has completed.
C3_TerminalAfterTokensComplete ==
  streaming => \A i \in 1..Len(terminals) : terminals[i].unsettled = 0

\* the message list fails validation: it is empty, or has an entry of an
\* unknown role or of a non-text content
BadMessages ==
  /\ op \in {"sendMessage", "sendMessageStream", "sendMessageWithThinking"}
  /\ \/ messages = <<>>
     \/ \E i \in 1..Len(messages) :
          \/ messages[i].role \notin {"system", "user", "assistant"}
          \/ messages[i].content = NotText

\* the configuration the call resolves to: the stored one, overlaid by the
\* custom one
resolvedConfig ==
  IF providerKey \notin DOMAIN models THEN customConfig
  ELSE IF customConfig = NoConfig THEN models[providerKey]
  ELSE spread(models[providerKey], customConfig)

empty(c, f) == f \notin DOMAIN c \/ c[f] = <<>>

\* the resolved configuration fails the validation of the operation: the
\* minimal one for fetchModelList, the full one for the others
BadConfig ==
  \/ providerKey = ""
  \/ resolvedConfig = NoConfig
  \/ empty(resolvedConfig, "provider")
  \/ empty(resolvedConfig, "apiKey")
  \/ empty(resolvedConfig, "baseURL")
  \/ /\ op # "fetchModelList"
     /\ \/ empty(resolvedConfig, "defaultModel")
        \/ ("enabled" \in DOMAIN resolvedConfig /\ resolvedConfig.enabled = FALSE)

\* C4: for each of the five operations, a call whose message list or
\* resolved configuration fails validation is rejected with a validation or
\* configuration error by its first step, and no vendor request is ever made
\* on its behalf.
C4_InvalidInputNoNetworkCall ==
  (op \in Operations /\ (BadMessages \/ BadConfig))
    => /\ netCalls = 0
       /\ pc \in {"start", "done"}
       /\ pc = "done" => (outcome = "rejected"
                           /\ error \in {"ValidationError", "RequestConfigError"})

C4_Witness ==
  /\ op = "sendMessage"
  /\ providerKey = "nokey"
  /\ messages = << Message("user", tQuestion) >>
  /\ outcome = "rejected"
  /\ error = "RequestConfigError"
  /\ netCalls = 0

\* C5: sendMessage never resolves to the empty text.
C5_SendMessageNeverEmpty ==
  (op = "sendMessage" /\ outcome = "resolved") => value # <<>>

\* the chat completion that carries, in one piece, what the chunks of the
\* stream carried
assembled(contents, arguments) ==
  [kind |-> "completion",
   response |->
     [choices |-> << [message |->
        [content |-> IF contents = <<>> THEN Null ELSE contents,
         tool_calls |-> IF arguments = <<>> THEN <<>>
                        ELSE << ToolCall(TRUE, "thinking", arguments) >>,
         hasReasoning |-> FALSE,
         reasoning_content |-> <<"r">>]] >>]]

wireContents == joinAll([i \in 1..Len(wire) |-> orElse(wire[i].content, <<>>)])

wireArguments ==
  joinAll([i \in 1..Len(wire) |->
             IF wire[i].tool_calls = <<>> THEN <<>> ELSE wire[i].tool_calls[1].arguments])

\* C9: when a stream of the generic adapter completes, the concatenation of
\* the texts passed to onToken is the text sendMessage returns for the same
\* vendor output.
C9_StreamConcatEqualsSendMessage ==
  (streaming /\ outcome = "resolved" /\ adapter = "OpenAIProvider")
    => joinAll(tokens)
         = sendMessageResult(adapter, modelConfig,
                             assembled(wireContents, wireArguments)).value

\* the thinking tool call of a message parses and has thoughts
hasThoughts(m) ==
  /\ Len(m.tool_calls) > 0
  /\ m.tool_calls[1].hasFunction
  /\ m.tool_calls[1].name = "thinking"
  /\ JSONparse(m.tool_calls[1].arguments).ok

\* what the fixed order of sources gives for the message of a response
byPriority(m) ==
  IF m.hasReasoning
    THEN [thinking |-> m.reasoning_content, content |-> orElse(m.content, <<>>)]
  ELSE IF hasThoughts(m)
    THEN [thinking |-> JSONparse(m.tool_calls[1].arguments).value.thoughts,
          content  |-> orElse(m.content, <<>>)]
  ELSE withThinking(orElse(m.content, <<>>), extract(orElse(m.content, <<>>)))

\* C10: sendMessageWithThinking of the generic adapter, when its first vendor
\* request is answered, takes the thinking from the response in the order
\* native reasoning field, thinking tool call, marker scan of the text.
C10_ThinkingSourceByPriority ==
  (/\ op = "sendMessageWithThinking"
   /\ adapter = "OpenAIProvider"
   /\ outcome = "resolved"
   /\ Len(replies) = 1
   /\ hasMessage(replies[1].response))
    => value = byPriority(replies[1].response.choices[1].message)

\* C11: every ThinkingResponse that sendMessageWithThinking resolves to has a
\* non-empty content.
C11_ContentAlwaysPopulated ==
  (op = "sendMessageWithThinking" /\ outcome = "resolved") => value.content # <<>>

\* every vendor request of the call was answered, none failed
vendorSucceeded ==
  Len(replies) > 0 /\ \A i \in 1..Len(replies) : replies[i].kind # "failure"

\* C12: when the vendor requests succeeded, sendMessage and
\* sendMessageWithThinking do not fail, whatever the response makes of the
\* recovery of the thinking segment.
C12_RecoveryFailureNeverFailsCall ==
  (/\ op \in {"sendMessage", "sendMessageWithThinking"}
   /\ pc = "done"
   /\ vendorSucceeded)
    => outcome = "resolved"

\* the kind an error class is tagged with: the class's code says validation,
\* configuration, vendor API or dependency, or something else
kindOf(class) ==
  CASE class = "ValidationError" -> "validation"
    [] class \in {"ConfigurationError", "RequestConfigError", "ModelConfigError"}
         -> "configuration"
    [] class = "APIError" -> "vendor-API"
    [] class = "DependencyError" -> "dependency"
    [] OTHER -> "other"

\* the last vendor request of a call that is not a stream failed
requestFailed ==
  ~streaming /\ Len(replies) > 0 /\ replies[Len(replies)].kind = "failure"

\* C13: an operation rejects with an error of one of the four kinds, and a
\* failed vendor request of a non-streaming call rejects with a vendor-API
\* error.
C13_RejectionsAreOfFourKinds ==
  (op \in Operations /\ outcome = "rejected")
    => /\ kindOf(error) \in {"validation", "configuration", "vendor-API", "dependency"}
       /\ requestFailed => kindOf(error) = "vendor-API"

\* C14: a call of the gateway, which invokes one method of one adapter,
\* issues at most one vendor request.
C14_AtMostOneVendorRequest == op \in Operations => netCalls <= 1

\* the vendor's model listing failed or is not in the expected shape
listingFailed ==
  /\ Len(replies) = 1
  /\ \/ replies[1].kind = "failure"
     \/ replies[1].kind = "models" /\ replies[1].data = Null

----------------------------------------------------------------------------
(* The provider factory on its own: registerProvider calls, then one        *)
(* createProvider                                                           *)

MaxRegistrations == 2

VendorNames ==
  { pOpenAI, pDeepSeek, nDeepseek, pGemini,
    <<"O", "R", "C", "A">>, <<"o", "r", "c", "a">>, <<>>, <<" ">> }

\* the constructors a caller registers; "" is a missing constructor
Constructors == {"OpenAIProvider", "GeminiProvider", "AnthropicProvider", ""}

\* the configurations a caller passes to createProvider
FactoryConfigs ==
  { NoConfig, [apiKey |-> <<"k">>] }
    \cup { [provider |-> n] : n \in VendorNames \cup {pCustom, pOllama, kConstructor, kProto} }

\* no gateway call and no extractor run is in progress
Idle ==
  /\ op = "none"
  /\ messages = <<>>
  /\ providerKey = ""
  /\ customConfig = NoConfig
  /\ handlers = "sync"
  /\ models = Store
  /\ pc = "idle"
  /\ modelConfig = NoConfig
  /\ adapter = ""
  /\ requests = <<>>
  /\ replies = <<>>
  /\ outcome = "pending"
  /\ value = Null
  /\ error = ""
  /\ wire = <<>>
  /\ tokens = <<>>
  /\ pending = {}
  /\ terminals = <<>>
  /\ streamState = InitialStreamState
  /\ text = <<>>
  /\ result = NotRun
  /\ dsResult = NotRun
  /\ again = NotRun
  /\ xpc = "idle"

InitFactory ==
  /\ Idle
  /\ registry = providers
  /\ registered = <<>>
  /\ wanted = NoConfig
  /\ instance = NotCreated
  /\ parked = NoCall

\* ModelProviderFactory.registerProvider(name, constructor): a call that
\* throws leaves the registry as it was
RegisterProvider(name, constructor) ==
  /\ instance = NotCreated
  /\ Len(registered) < MaxRegistrations
  /\ IF registerProvider(registry, name, constructor).ok
       THEN /\ registry' = registerProvider(registry, name, constructor).value
            /\ registered' = Append(registered, [name |-> name, constructor |-> constructor])
       ELSE UNCHANGED <<registry, registered>>
  /\ UNCHANGED <<wanted, instance, gwVars, exVars, parked>>

\* ModelProviderFactory.createProvider(config)
CreateProvider(config) ==
  /\ instance = NotCreated
  /\ wanted' = config
  /\ instance' = createProviderIn(registry, config)
  /\ UNCHANGED <<registry, registered, gwVars, exVars, parked>>

NextFactory ==
  \/ \E name \in VendorNames, constructor \in Constructors :
       RegisterProvider(name, constructor)
  \/ \E config \in FactoryConfigs : CreateProvider(config)

SpecFactory == InitFactory /\ [][NextFactory]_vars

----------------------------------------------------------------------------
(* Properties of the provider factory, checked under SpecFactory *)

\* the registerProvider calls made under a name, whatever its case
registeredAs(name) ==
  { i \in 1..Len(registered) : toLowerCase(registered[i].name) = name }

\* the constructor the vendor name of a configuration stands for: the one
\* most recently registered under it, else the initial one, else the generic
\* chat-completion adapter
resolved(name) ==
  IF registeredAs(name) # {} THEN registered[Max(registeredAs(name))].constructor
  ELSE IF name \in DOMAIN providers THEN providers[name]
  ELSE "OpenAIProvider"

\* C16: createProvider, for a configuration with a non-empty vendor name,
\* returns an instance of the constructor most recently registered under the
\* lower-cased name, and of the generic adapter when none ever was.
C16_FactoryResolvesVendor ==
  (instance # NotCreated /\ truthy(field(wanted, "provider")))
    => instance = Ok(resolved(toLowerCase(wanted.provider)))

----------------------------------------------------------------------------
(* Two calls of the gateway in flight at once.  The variables of the call   *)
(* hold the call that is running; parked holds the call that is suspended   *)
(* at an await.  The configuration store and the provider registry are the  *)
(* only state the two calls share.                                          *)

\* the state of the running call
callState ==
  [op |-> op, messages |-> messages, providerKey |-> providerKey,
   customConfig |-> customConfig, handlers |-> handlers, pc |-> pc,
   modelConfig |-> modelConfig, adapter |-> adapter, requests |-> requests,
   replies |-> replies, outcome |-> outcome, value |-> value, error |-> error,
   wire |-> wire, tokens |-> tokens, pending |-> pending,
   terminals |-> terminals, streamState |-> streamState]

\* a call that has not started
NewCall(o, key) ==
  [op |-> o, messages |-> << Message("user", tQuestion) >>, providerKey |-> key,
   customConfig |-> NoConfig, handlers |-> "sync", pc |-> "start",
   modelConfig |-> NoConfig, adapter |-> "", requests |-> <<>>,
   replies |-> <<>>, outcome |-> "pending", value |-> Null, error |-> "",
   wire |-> <<>>, tokens |-> <<>>, pending |-> {},
   terminals |-> <<>>, streamState |-> InitialStreamState]

\* the calls made concurrently
PairCalls ==
  { NewCall("sendMessageStream", "reasoner"),
    NewCall("sendMessageStream", "openai"),
    NewCall("sendMessage", "coder") }

\* the chunks the vendors stream to them
PairChunks == { Chunk(<<"a">>, <<>>), Chunk(mFenceThinking, <<>>) }

\* A variant of resumed in which the parsing state of a stream belongs to an
\* object the two calls share.
resumedShared(own, left) == left

\* the toolState and reasonerState a call finds when it resumes: its own,
\* they are locals of its sendMessageStream, not what the other call left
resumed(own, left) == own

InitPair ==
  /\ \E first \in PairCalls, second \in PairCalls :
       /\ op = first.op
       /\ providerKey = first.providerKey
       /\ messages = first.messages
       /\ parked = second
  /\ customConfig = NoConfig
  /\ handlers = "sync"
  /\ models = Store
  /\ pc = "start"
  /\ modelConfig = NoConfig
  /\ adapter = ""
  /\ requests = <<>>
  /\ replies = <<>>
  /\ outcome = "pending"
  /\ value = Null
  /\ error = ""
  /\ wire = <<>>
  /\ tokens = <<>>
  /\ pending = {}
  /\ terminals = <<>>
  /\ streamState = InitialStreamState
  /\ text = <<>>
  /\ result = NotRun
  /\ dsResult = NotRun
  /\ again = NotRun
  /\ xpc = "idle"
  /\ registry = providers
  /\ registered = <<>>
  /\ wanted = NoConfig
  /\ instance = NotCreated

\* the running call is suspended at an await (or has settled) and the event
\* loop runs the other call
Switch ==
  /\ parked # NoCall
  /\ parked' = callState
  /\ op' = parked.op
  /\ messages' = parked.messages
  /\ providerKey' = parked.providerKey
  /\ customConfig' = parked.customConfig
  /\ handlers' = parked.handlers
  /\ pc' = parked.pc
  /\ modelConfig' = parked.modelConfig
  /\ adapter' = parked.adapter
  /\ requests' = parked.requests
  /\ replies' = parked.replies
  /\ outcome' = parked.outcome
  /\ value' = parked.value
  /\ error' = parked.error
  /\ wire' = parked.wire
  /\ tokens' = parked.tokens
  /\ pending' = parked.pending
  /\ terminals' = parked.terminals
  /\ streamState' = resumed(parked.streamState, streamState)
  /\ UNCHANGED <<models, exVars, facVars>>

NextPair ==
  \/ SendMessage
  \/ SendMessageStream
  \/ CompletionArrives
  \/ RequestFails
  \/ StreamOpens
  \/ \E chunk \in PairChunks : StreamChunk(chunk)
  \/ StreamEnds
  \/ StreamFails
  \/ Switch

SpecPair == InitPair /\ [][NextPair]_vars

----------------------------------------------------------------------------
(* Properties of concurrent calls, checked under SpecPair *)

\* what the loop of an adapter's sendMessageStream, run from its initial
\* parsing state over the chunks of one stream, passes to onToken and leaves
\* as parsing state
RECURSIVE played(_, _, _, _, _)
playedOn(class, config, rest, h, toks) ==
  played(class, config, rest, h.state, toks \o h.tokens)

played(class, config, chunks, state, toks) ==
  IF chunks = <<>> THEN [state |-> state, tokens |-> toks]
  ELSE playedOn(class, config, Tail(chunks),
                handleChunk(class, Head(chunks), state, config), toks)

\* a stream call shows what its own chunks give
streamAlone(c, solo) ==
  /\ c.tokens = solo.tokens
  /\ c.streamState = solo.state
  /\ c.pc = "done" =>
       IF c.replies = << Failure >>
         THEN /\ c.outcome = "rejected"
              /\ c.terminals = << [kind |-> "error", unsettled |-> 0],
                                  [kind |-> "error", unsettled |-> 0] >>
         ELSE /\ c.outcome = "resolved"
              /\ c.terminals = << [kind |-> "complete", unsettled |-> 0] >>

\* a sendMessage call returns what its own reply gives
sendAlone(c, solo) ==
  /\ c.outcome = IF solo.ok THEN "resolved" ELSE "rejected"
  /\ solo.ok => c.value = solo.value
  /\ ~solo.ok => c.error = solo.error

\* call c has the adapter of its own configuration and shows what it would
\* show had it run alone on the same vendor events
alone(c) ==
  c.adapter # "" =>
    /\ c.modelConfig = Store[c.providerKey]
    /\ Ok(c.adapter) = createProvider(Store[c.providerKey])
    /\ c.op = "sendMessageStream" =>
         streamAlone(c, played(c.adapter, c.modelConfig, c.wire, InitialStreamState, <<>>))
    /\ (c.op = "sendMessage" /\ c.pc = "done") =>
         sendAlone(c, safeExecute(sendMessageResult(c.adapter, c.modelConfig, c.replies[1])))

----------------------------------------------------------------------------
(* The validator on its own: one call of validateMessages or of             *)
(* validateModelConfig, of either of the two Validator classes of the tree  *)

ValidateMessagesOps == {"validateMessages", "core.validateMessages"}
ValidateModelConfigOps == {"validateModelConfig", "core.validateModelConfig"}

MaxMessages == 2

\* the entries of a message list: every role, known or not, with a text, an
\* empty text or a content that is not a string; and an entry that is no
\* object
Entries ==
  { Message(r, c) : r \in {"system", "user", "assistant", "tool", ""},
                    c \in {tQuestion, <<>>, NotText} }
    \cup {NoEntry}

MessageInputs == {NotArray} \cup UNION { [1..n -> Entries] : n \in 0..MaxMessages }

\* partial configurations: each of the four fields missing, empty or set
PartialConfigs ==
  UNION { [D -> {<<>>, <<"x">>}] :
            D \in SUBSET {"provider", "apiKey", "baseURL", "defaultModel"} \ {{}} }

\* the same with the enabled flag
flagged(c, on) ==
  [f \in DOMAIN c \cup {"enabled"} |-> IF f = "enabled" THEN on ELSE c[f]]

ConfigInputs ==
  {NoConfig} \cup PartialConfigs \cup { flagged(c, on) : c \in PartialConfigs, on \in BOOLEAN }

InitValidate ==
  /\ op \in ValidateMessagesOps \cup ValidateModelConfigOps
  /\ messages \in IF op \in ValidateMessagesOps THEN MessageInputs ELSE { <<>> }
  /\ modelConfig \in IF op \in ValidateModelConfigOps THEN ConfigInputs ELSE {NoConfig}
  /\ providerKey = ""
  /\ customConfig = NoConfig
  /\ handlers = "sync"
  /\ models = Store
  /\ pc = "start"
  /\ adapter = ""
  /\ requests = <<>>
  /\ replies = <<>>
  /\ outcome = "pending"
  /\ value = Null
  /\ error = ""
  /\ wire = <<>>
  /\ tokens = <<>>
  /\ pending = {}
  /\ terminals = <<>>
  /\ streamState = InitialStreamState
  /\ text = <<>>
  /\ result = NotRun
  /\ dsResult = NotRun
  /\ again = NotRun
  /\ xpc = "idle"
  /\ registry = providers
  /\ registered = <<>>
  /\ wanted = NoConfig
  /\ instance = NotCreated
  /\ parked = NoCall

\* Validator.validateMessages(messages): it returns or throws, and touches
\* nothing else
ValidateMessages ==
  /\ op = "validateMessages" /\ pc = "start"
  /\ Settle(validateMessages(messages))
  /\ UNCHANGED <<inputVars, modelConfig, adapter, requests, replies, streamVars,
                 exVars, facVars, parked>>

\* Validator.validateModelConfig(config)
ValidateModelConfig ==
  /\ op = "validateModelConfig" /\ pc = "start"
  /\ Settle(validateModelConfig(modelConfig))
  /\ UNCHANGED <<inputVars, modelConfig, adapter, requests, replies, streamVars,
                 exVars, facVars, parked>>

\* validateMessages of packages/core
CoreValidateMessages ==
  /\ op = "core.validateMessages" /\ pc = "start"
  /\ Settle(coreValidateMessages(messages))
  /\ UNCHANGED <<inputVars, modelConfig, adapter, requests, replies, streamVars,
                 exVars, facVars, parked>>

\* validateModelConfig of packages/core
CoreValidateModelConfig ==
  /\ op = "core.validateModelConfig" /\ pc = "start"
  /\ Settle(coreValidateModelConfig(modelConfig))
  /\ UNCHANGED <<inputVars, modelConfig, adapter, requests, replies, streamVars,
                 exVars, facVars, parked>>

NextValidate ==
  \/ ValidateMessages
  \/ ValidateModelConfig
  \/ CoreValidateMessages
  \/ CoreValidateModelConfig

SpecValidate == InitValidate /\ [][NextValidate]_vars

----------------------------------------------------------------------------
(* Properties of the validator, checked under SpecValidate *)

\* an entry whose role is none of system, user, assistant (an entry that is
\* no object has no role), or whose content is not a string
badEntry(m) ==
  \/ m = NoEntry
  \/ m.role \notin {"system", "user", "assistant"}
  \/ m.content = NotText

\* C18: validateMessages throws a validation error exactly when its argument
\* is not a sequence, is empty or holds a bad entry, and accepts every other
\* list, whatever the order of roles and also with empty contents.
C18_ValidateMessagesIff ==
  (op \in ValidateMessagesOps /\ pc = "done")
    => /\ outcome = "rejected"
            <=> \/ messages = NotArray
                \/ messages = <<>>
                \/ \E i \in 1..Len(messages) : badEntry(messages[i])
       /\ outcome = "rejected" => error = "ValidationError"

\* a field of a configuration is missing: undefined or empty
missing(c, f) == f \notin DOMAIN c \/ c[f] = <<>>

\* C19: validateModelConfig throws a configuration error exactly when the
\* vendor, the credential, the base URL or the default model is missing or
\* the configuration is disabled by enabled = false.
C19_ValidateModelConfigIff ==
  (op \in ValidateModelConfigOps /\ pc = "done")
    => /\ outcome = "rejected"
            <=> \/ modelConfig = NoConfig
                \/ \E f \in {"provider", "apiKey", "baseURL", "defaultModel"} :
                     missing(modelConfig, f)
                \/ ("enabled" \in DOMAIN modelConfig /\ modelConfig.enabled = FALSE)
       /\ outcome = "rejected" => error = "RequestConfigError"

----------------------------------------------------------------------------
(* The DeepSeek extractor against the base extractor, checked under         *)
(* SpecExtract                                                              *)

\* the text holds one of the DeepSeek opening markers
hasDeepSeekStart(t) == findFirstDeepSeekMarker(t, deepseekStartMarkers) # Null

----------------------------------------------------------------------------
(* The base extractor on tagged texts, checked under SpecExtract *)

\* t holds no opening marker, no closing tag and no answer label
plain(t) ==
  /\ ~containsAny(t, thinkStartMarkers)
  /\ ~includes(t, mThinkClose)
  /\ ~containsAny(t, answerMarkers)

\* the part of t from 1-based position a to the end
rest(t, a) == SubSeq(t, a, Len(t))

\* t is <think> T </think> A, with T the i characters after the opening tag
tagged(t, i) ==
  /\ Len(t) >= Len(mThinkOpen) + i + Len(mThinkClose)
  /\ SubSeq(t, 1, Len(mThinkOpen)) = mThinkOpen
  /\ SubSeq(t, Len(mThinkOpen) + i + 1, Len(mThinkOpen) + i + Len(mThinkClose))
       = mThinkClose

thinkingOf(t, i) == SubSeq(t, Len(mThinkOpen) + 1, Len(mThinkOpen) + i)

answerOf(t, i) == rest(t, Len(mThinkOpen) + i + Len(mThinkClose) + 1)

\* C21: for every text <think> T </think> A in which T and A hold no opening
\* marker, closing tag or answer label and A is not blank, extract returns
\* T trimmed as thinking and A trimmed as answer; the scenario text about
\* 9.11 and 9.9 yields its reason as thinking and '9.8 is larger.' as answer.
C21_TaggedTextSplits ==
  xpc = "extracted"
    => /\ \A i \in 0..Len(text) :
            ( /\ tagged(text, i)
              /\ plain(thinkingOf(text, i))
              /\ plain(answerOf(text, i))
              /\ ~Blank(answerOf(text, i)) )
              => result = [thinking |-> trim(thinkingOf(text, i)),
                           answer   |-> trim(answerOf(text, i))]
       /\ text = tScenario => result = [thinking |-> tReason, answer |-> tLarger]

\* a tagged text whose thinking and answer both lose white space
C21_Witness ==
  /\ xpc = "extracted"
  /\ text = mThinkOpen \o <<"\n">> \o mThinkClose \o <<"a">>
  /\ result = [thinking |-> <<>>, answer |-> <<"a">>]

\* the scenario text, extracted
C21_Scenario ==
  /\ xpc = "extracted"
  /\ text = tScenario
  /\ result.thinking = tReason

----------------------------------------------------------------------------
(* The round trip of the base extractor, checked under SpecExtract *)

\* C22: when extract splits a text into thinking T and answer A around an
\* opening marker S and a closing marker E, extract applied to S T E A
\* returns the same thinking and the same answer.
C22_RoundTrip ==
  xpc = "reassembled"
    => (again.thinking = result.thinking /\ again.answer = result.answer)

----------------------------------------------------------------------------
(* The default model and the list of models, checked under Spec *)

CompletionOperations == Operations \ {"fetchModelList"}

\* the default model of c is one of the models c lists
listsDefault(c) ==
  /\ "models" \in DOMAIN c
  /\ \E i \in 1..Len(c.models) : c.models[i] = field(c, "defaultModel")

\* C23: a completion call (send, stream, send with thinking, test connection)
\* reaches the vendor only with a configuration whose default model is among
\* the models the configuration lists.
C23_DefaultModelIsListed ==
  (op \in CompletionOperations /\ netCalls >= 1) => listsDefault(modelConfig)

----------------------------------------------------------------------------
(* What the gateway leaves alone, checked under Spec *)

----------------------------------------------------------------------------
(* The tokens of a stream of the generic adapter, checked under Spec *)

\* the non-empty text fragments the vendor has streamed, in order
fragments ==
  SelectSeq([i \in 1..Len(wire) |-> orElse(wire[i].content, <<>>)],
            LAMBDA c : c # <<>>)

\* C25: in a stream of the generic chat-completion adapter, the texts passed
\* to onToken are exactly the non-empty text fragments received, each once,
\* unchanged and in order, for every model.
C25_TokensAreTheFragments ==
  (streaming /\ adapter = "OpenAIProvider" /\ handlers # "tokenThrows")
    => tokens = fragments

----------------------------------------------------------------------------
(* The messages the generic adapter sends, checked under Spec *)

SendOperations == {"sendMessage", "sendMessageStream", "sendMessageWithThinking"}

\* C26: the generic adapter sends, for a model whose name contains
\* deepseek-reasoner, the caller's messages with the instruction to wrap the
\* reasoning in a fenced thinking block (as a new first system message, or
\* appended to the first system message), and for any other model the
\* caller's messages unchanged.
C26_ReasonerGetsThinkingInstruction ==
  (op \in SendOperations /\ adapter = "OpenAIProvider")
    => \A i \in 1..Len(requests) :
         requests[i].messages
           = IF isDeepSeekReasoner(modelConfig)
               THEN prepareDeepSeekReasonerMessages(messages)
               ELSE prepareMessages(messages)

----------------------------------------------------------------------------
(* The closing marker the base extractor uses, checked under SpecExtract *)

\* the index after the opening marker extract locates in t
afterOpening(t) ==
  indexOf(t, findFirstMarker(t, thinkStartMarkers), 0)
    + Len(findFirstMarker(t, thinkStartMarkers))

\* where closing markers start in t, from index from on
closingsFrom(t, from) == { j \in occurrences(t, thinkEndMarkers) : j >= from }

\* C27: when the text holds an opening marker and a closing marker after it,
\* thinking is the trimmed text between the opening marker and the closing
\* marker occurrence that comes first after it, whichever of the closing
\* tag, the fence and the blank line that is.
C27_EarliestClosingMarker ==
  ( /\ xpc = "extracted"
    /\ containsAny(text, thinkStartMarkers)
    /\ closingsFrom(text, afterOpening(text)) # {} )
    => result.thinking
         = trim(substring(text, afterOpening(text),
                          Min(closingsFrom(text, afterOpening(text)))))

\* the closing markers, by their place in the list, that occur in t from
\* index from on
listedFrom(t, from) ==
  { k \in 1..Len(thinkEndMarkers) :
      \E j \in from..(Len(t) - 1) :
         t[j + 1] = thinkEndMarkers[k][1] /\ matchesAt(t, thinkEndMarkers[k], j) }

\* where the closing marker that comes first in the list, among those that
\* occur from index from on, first occurs from there on
listedClosing(t, from) ==
  LET marker == thinkEndMarkers[Min(listedFrom(t, from))]
  IN  Min({ j \in from..(Len(t) - 1) : matchesAt(t, marker, j) })

\* C27, amended: when the text holds an opening marker and a closing marker
\* after it, the closing marker used is the one that comes first in the list
\* (closing tag, then fence, then blank line) among those that occur after
\* the opening marker, and thinking is the trimmed text between the opening
\* marker and the first occurrence of that marker after it.
C27_FirstListedClosingMarker ==
  ( /\ xpc = "extracted"
    /\ containsAny(text, thinkStartMarkers)
    /\ closingsFrom(text, afterOpening(text)) # {} )
    => result.thinking
         = trim(substring(text, afterOpening(text),
                          listedClosing(text, afterOpening(text))))

\* a fence stands between the opening tag and the closing tag, and the
\* thinking runs up to the closing tag
C27_Witness ==
  /\ xpc = "extracted"
  /\ text = mThinkOpen \o <<"a">> \o mFence \o mThinkClose
  /\ result.thinking = <<"a">> \o mFence

----------------------------------------------------------------------------
(* Texts with a closing marker and no opening marker, checked under         *)
(* SpecExtract                                                              *)

\* t holds a closing marker and no opening marker
CloseWithoutOpen(t) ==
  containsAny(t, thinkEndMarkers) /\ ~containsAny(t, thinkStartMarkers)

\* the end of the closing marker selected in t, searched from the start
closingEnd(t) ==
  listedClosing(t, 0) + Len(thinkEndMarkers[Min(listedFrom(t, 0))])

\* an answer, absent when blank
answerFrom(t, from) == orElse(trim(rest(t, from + 1)), Null)

\* C28: for every text with a closing marker and no opening marker, thinking
\* is the trimmed text before the closing marker selected and answer is the
\* text after it, absent when blank; the opening marker put in front of the
\* text shows in neither.
C28_SynthesizedOpening ==
  (xpc = "extracted" /\ CloseWithoutOpen(text))
    => /\ result.thinking = trim(substring(text, 0, listedClosing(text, 0)))
       /\ result.answer = answerFrom(text, closingEnd(text))
       /\ ~includes(shown(result.thinking), mThinkOpen)
       /\ ~includes(shown(result.answer), mThinkOpen)

\* C28, amended: for every text that is not blank, with a closing marker and
\* no opening marker, thinking is the trimmed text before the closing marker
\* selected, and answer is the trimmed text after it, or after an answer
\* label that starts within the window after it, absent when blank; the
\* opening marker put in front of the text shows in neither.
C28_SynthesizedOpeningNotBlank ==
  (xpc = "extracted" /\ CloseWithoutOpen(text) /\ ~Blank(text))
    => /\ result.thinking = trim(substring(text, 0, listedClosing(text, 0)))
       /\ result.answer
            = answerFrom(text, findAnswerStartIndex(text, closingEnd(text)))
       /\ ~includes(shown(result.thinking), mThinkOpen)
       /\ ~includes(shown(result.answer), mThinkOpen)

\* a text that only closes its thinking
C28_Witness ==
  /\ xpc = "extracted"
  /\ text = <<"a">> \o mThinkClose \o <<"a">>
  /\ result = [thinking |-> <<"a">>, answer |-> <<"a">>]

----------------------------------------------------------------------------
(* onError and the rejection of a stream call, checked under Spec *)

\* C29: whenever the promise of the gateway's sendMessageStream rejects,
\* onError has been invoked at least once, also when the call fails on its
\* messages or on its configuration before an adapter exists.
C29_RejectionAfterOnError ==
  (streaming /\ outcome = "rejected") => invocations("error") >= 1

----------------------------------------------------------------------------
(* One stream of a reasoner model, with the fences cut into fragments *)

MaxFragments == 5

tThinkingWord == <<"t", "h", "i", "n", "k", "i", "n", "g">>

\* the fragments the vendor sends: text, whole fences, and pieces of fences
Fragments ==
  { Chunk(<<"a">>, <<>>),
    Chunk(<<"[bt]">>, <<>>),
    Chunk(<<"[bt]", "[bt]">>, <<>>),
    Chunk(tThinkingWord, <<>>),
    Chunk(mFenceThinking, <<>>),
    Chunk(mFence, <<>>) }

InitReasoner ==
  /\ op = "sendMessageStream"
  /\ messages = << Message("user", tQuestion) >>
  /\ providerKey = "reasoner"
  /\ customConfig = NoConfig
  /\ handlers = "sync"
  /\ models = Store
  /\ pc = "start"
  /\ modelConfig = NoConfig
  /\ adapter = ""
  /\ requests = <<>>
  /\ replies = <<>>
  /\ outcome = "pending"
  /\ value = Null
  /\ error = ""
  /\ wire = <<>>
  /\ tokens = <<>>
  /\ pending = {}
  /\ terminals = <<>>
  /\ streamState = InitialStreamState
  /\ text = <<>>
  /\ result = NotRun
  /\ dsResult = NotRun
  /\ again = NotRun
  /\ xpc = "idle"
  /\ registry = providers
  /\ registered = <<>>
  /\ wanted = NoConfig
  /\ instance = NotCreated
  /\ parked = NoCall

\* the loop body of OpenAIProvider.sendMessageStream on one more fragment
FragmentArrives(chunk) ==
  /\ pc = "streaming"
  /\ Len(wire) < MaxFragments
  /\ wire' = Append(wire, chunk)
  /\ Deliver(handleChunk(adapter, chunk, streamState, modelConfig))
  /\ UNCHANGED <<inputVars, modelConfig, adapter, requests, replies, exVars, facVars, parked>>

NextReasoner ==
  \/ SendMessageStream
  \/ StreamOpens
  \/ \E chunk \in Fragments : FragmentArrives(chunk)
  \/ StreamEnds
  \/ StreamFails

SpecReasoner == InitReasoner /\ [][NextReasoner]_vars

----------------------------------------------------------------------------
(* The header tokens of a reasoner stream, checked under SpecReasoner *)

\* the places of a header among the tokens
headerAt(h) == { i \in 1..Len(tokens) : tokens[i] = h }

\* C30: in a stream of a reasoner model, however the output is cut into
\* fragments, the thinking header is emitted at most once and the answer
\* header is never emitted before the thinking header.
C30_HeadersInOrder ==
  (streaming /\ adapter = "OpenAIProvider" /\ isDeepSeekReasoner(modelConfig))
    => /\ Cardinality(headerAt(hThinking)) <= 1
       /\ \A i \in headerAt(hAnswer) : \E j \in headerAt(hThinking) : j < i

\* both headers were emitted, on fences that arrived in pieces
C30_Witness ==
  /\ streaming
  /\ isDeepSeekReasoner(modelConfig)
  /\ Len(wire) >= 4
  /\ wire[1].content = <<"[bt]", "[bt]">>
  /\ wire[2].content = <<"[bt]">>
  /\ wire[3].content = tThinkingWord
  /\ headerAt(hThinking) # {}
  /\ headerAt(hAnswer) # {}

====
